---- MODULE Spec2Model ----
(***************************************************************************)
(* USF-2 planning / aggregation core (src/src/usf_executor.py,             *)
(* src/src/usf_runner.py), its command line (src/src/usf.py) and the       *)
(* domain detector (src/agents/domain_detector.py) as a state machine.     *)
(*                                                                         *)
(* The executor holds no mutable state: every operation is a pure          *)
(* function of its arguments.  Each behaviour therefore is one call of an  *)
(* operation on arguments drawn from bounded sets (plus, for the host      *)
(* part, the execution of the returned work items).                        *)
(*                                                                         *)
(* Conventions                                                             *)
(*   - Python None is the string "None"; for precision_level, whose only   *)
(*     use of None is `precision_level or d`, None is 0 (0 is falsy too).  *)
(*   - A confidence is an exact rational [n, d] (d > 0); float rounding is *)
(*     not modelled.                                                       *)
(*   - A text is a sequence of tokens (see the parser section).            *)
(***************************************************************************)
EXTENDS Integers, Sequences, FiniteSets, TLC

VARIABLES
    op,         \* the operation that produced the current result ("none" before a call)
    plan,       \* plan dict returned by create_smart_execution_plan / USFRunner.prepare,
                \* or the plan dict given to aggregate_from_json
    xplan,      \* USFExecutionPlan returned by create_execution_plan
    items,      \* work items handed to the host (a plan's chain_commands)
    started,    \* indices of work items the host has started
    completed,  \* indices of work items the host has completed
    raw,        \* raw text given to parse_task_output
    parsed,     \* outcome of parse_task_output(raw)
    reparsed,   \* outcome of parse_task_output(parsed.result)
    results,    \* list of ChainResult given to aggregate_results
    ctype,      \* compute type given to aggregate_results
    verdict,    \* dict returned by aggregate_results / aggregate_from_json
    task_outputs, \* list of output dicts given to aggregate_from_json
    args,       \* arguments of a call of one of the other pure operations
    ret         \* what that call returned, or [raised |-> exception]

vars == <<op, plan, xplan, items, started, completed, raw, parsed, reparsed,
          results, ctype, verdict, task_outputs, args, ret>>

None == "None"

(***************************************************************************)
(* Sequence helpers                                                        *)
(***************************************************************************)
Range(s) == {s[i] : i \in 1..Len(s)}

Min(a, b) == IF a <= b THEN a ELSE b

\* s[:n] of Python for n >= 0
Take(s, n) == SubSeq(s, 1, Min(n, Len(s)))

\* str(i) as an f-string renders it, for the item numbers a plan can hold
Str(i) ==
    <<"1", "2", "3", "4", "5", "6", "7", "8", "9", "10", "11", "12", "13",
      "14", "15">>[i]

(***************************************************************************)
(* ComputeType, chains, archetypes                                         *)
(***************************************************************************)
ComputeTypes ==
    <<"sequential", "parallel", "swarm", "hivemind", "pipeline",
      "supervisor_worker", "hybrid", "map_reduce", "tournament",
      "critic_loop", "ensemble", "mesh_distributed", "mesh_offensive">>

\* keys of CHAIN_PROMPTS in declaration order
CHAIN_PROMPTS ==
    <<"A_SINGLE_SOURCE", "B_DUAL_SOURCE", "C_TRIPLE_SOURCE", "D_ADVERSARIAL",
      "E_MATHEMATICAL", "F_DOMAIN_EXPERT", "G_TEMPORAL", "H_CONSENSUS",
      "I_STREAMING">>

\* chain_id.split('_')[0]
ChainLetter(chain_id) ==
    CASE chain_id = "A_SINGLE_SOURCE" -> "A"
      [] chain_id = "B_DUAL_SOURCE"   -> "B"
      [] chain_id = "C_TRIPLE_SOURCE" -> "C"
      [] chain_id = "D_ADVERSARIAL"   -> "D"
      [] chain_id = "E_MATHEMATICAL"  -> "E"
      [] chain_id = "F_DOMAIN_EXPERT" -> "F"
      [] chain_id = "G_TEMPORAL"      -> "G"
      [] chain_id = "H_CONSENSUS"     -> "H"
      [] chain_id = "I_STREAMING"     -> "I"

\* keys of ArchetypeLoader.ARCHETYPES in declaration order
ARCHETYPES == <<"ARC-TH", "ARC-AD", "ARC-IM", "ARC-ST", "ARC-QA">>

\* archetype["domains"]: domain -> persona title
ArchetypeDomains(archetype_id) ==
    CASE archetype_id = "ARC-TH" ->
           [security |-> "Security Researcher", crypto |-> "Cryptographer",
            software |-> "Software Architect", legal |-> "Legal Theorist",
            default |-> "Domain Theorist"]
      [] archetype_id = "ARC-AD" ->
           [security |-> "Red Team Operator", crypto |-> "Cryptanalyst",
            software |-> "Bug Hunter", legal |-> "Opposing Counsel",
            default |-> "Adversarial Analyst"]
      [] archetype_id = "ARC-IM" ->
           [security |-> "Security Engineer", crypto |-> "Cryptographic Engineer",
            software |-> "Senior Developer", legal |-> "Compliance Officer",
            default |-> "Implementation Specialist"]
      [] archetype_id = "ARC-ST" ->
           [security |-> "Security Strategist", crypto |-> "Protocol Architect",
            software |-> "Technical Lead", legal |-> "General Counsel",
            default |-> "Strategic Planner"]
      [] archetype_id = "ARC-QA" ->
           [security |-> "Security Auditor", crypto |-> "Protocol Auditor",
            software |-> "QA Engineer", legal |-> "Legal Reviewer",
            default |-> "Quality Analyst"]

\* ArchetypeLoader.DOMAIN_KEYWORDS in declaration order
DOMAIN_KEYWORDS ==
    << [domain |-> "security",
        keywords |-> {"security", "vulnerability", "exploit", "attack",
                      "defense", "pentest", "audit"}],
       [domain |-> "crypto",
        keywords |-> {"cryptograph", "encrypt", "cipher", "hash", "signature",
                      "key", "protocol"}],
       [domain |-> "software",
        keywords |-> {"code", "function", "class", "api", "refactor", "bug",
                      "feature"}],
       [domain |-> "legal",
        keywords |-> {"legal", "compliance", "regulation", "contract",
                      "liability", "policy"}] >>

(***************************************************************************)
(* Tasks.  A task is a set of words; `kw in task.lower()` is a substring   *)
(* test on the lower-cased text, modelled by the keywords each word        *)
(* contains once lower-cased.                                              *)
(***************************************************************************)
Vocabulary == {"SECURITY", "thorough", "compare", "quick", "key"}

\* str.lower() on one word
Lower(w) == IF w = "SECURITY" THEN "security" ELSE w

\* the keywords that occur in a lower-cased word
KeywordsIn(w) == {w}

Tasks == SUBSET Vocabulary

\* kw in task_lower
Contains(task, kw) == \E w \in task : kw \in KeywordsIn(Lower(w))

\* any(kw in task_lower for kw in kws)
ContainsAny(task, kws) == \E kw \in kws : Contains(task, kw)

(***************************************************************************)
(* ArchetypeLoader                                                         *)
(***************************************************************************)
RECURSIVE DetectDomainFrom(_, _)
DetectDomainFrom(task, i) ==
    IF i > Len(DOMAIN_KEYWORDS) THEN "default"
    ELSE IF ContainsAny(task, DOMAIN_KEYWORDS[i].keywords)
         THEN DOMAIN_KEYWORDS[i].domain
         ELSE DetectDomainFrom(task, i + 1)

\* ArchetypeLoader.detect_domain / USFExecutor.detect_domain
detect_domain(task) == DetectDomainFrom(task, 1)

\* bug variant: the domain is ignored and the default title is given
PersonaTitle_defaultOnly(archetype_id, domain) ==
    ArchetypeDomains(archetype_id)["default"]

\* archetype["domains"].get(domain, archetype["domains"]["default"])
PersonaTitle(archetype_id, domain) ==
    LET titles == ArchetypeDomains(archetype_id)
    IN  IF domain \in DOMAIN titles THEN titles[domain] ELSE titles["default"]

RECURSIVE FillPanel(_, _, _)
FillPanel(panel, i, panel_size) ==
    IF i > Len(ARCHETYPES) THEN panel
    ELSE IF ARCHETYPES[i] \notin Range(panel) /\ Len(panel) < panel_size
         THEN FillPanel(Append(panel, ARCHETYPES[i]), i + 1, panel_size)
         ELSE FillPanel(panel, i + 1, panel_size)

\* ArchetypeLoader.compose_panel; required_archetypes None or [] is <<>>
compose_panel(domain, panel_size, required_archetypes) ==
    Take(FillPanel(required_archetypes, 1, panel_size), panel_size)

(***************************************************************************)
(* USFExecutor: chain selection and work items                             *)
(***************************************************************************)
\* bug variant: level 3 takes the first three declared chains
get_chains_for_precision_prefix(precision_level) ==
    IF precision_level >= 5 THEN CHAIN_PROMPTS
    ELSE IF precision_level = 4 THEN SubSeq(CHAIN_PROMPTS, 1, 6)
    ELSE IF precision_level >= 1 THEN SubSeq(CHAIN_PROMPTS, 1, precision_level)
    ELSE <<"A_SINGLE_SOURCE">>

get_chains_for_precision(precision_level) ==
    IF precision_level >= 5 THEN CHAIN_PROMPTS
    ELSE IF precision_level = 4 THEN SubSeq(CHAIN_PROMPTS, 1, 6)
    ELSE IF precision_level = 3
         THEN <<"A_SINGLE_SOURCE", "B_DUAL_SOURCE", "D_ADVERSARIAL">>
    ELSE IF precision_level = 2 THEN <<"A_SINGLE_SOURCE", "B_DUAL_SOURCE">>
    ELSE <<"A_SINGLE_SOURCE">>

\* USFExecutionPlan built by create_execution_plan, or [raised |-> ...] when
\* the call does not return: ComputeType(compute_type) raises ValueError on a
\* name that is no member of the enum
create_execution_plan(task, compute_type, precision_level, profile) ==
    IF compute_type \notin Range(ComputeTypes)
    THEN [raised |-> "ValueError", compute_type |-> compute_type]
    ELSE
    [task            |-> task,
     engines         |-> IF profile = "fire_and_forget"
                         THEN <<"ENGINE_4_VERIFICATION",
                                "ENGINE_10_PARALLEL_VERIFICATION",
                                "ENGINE_12_FULL_AUTONOMY">>
                         ELSE <<"ENGINE_4_VERIFICATION",
                                "ENGINE_10_PARALLEL_VERIFICATION">>,
     chains          |-> get_chains_for_precision(precision_level),
     compute_type    |-> compute_type,
     precision_level |-> precision_level,
     profile         |-> profile]

\* A work item.  The prompt is kept as its template tag and the chain it
\* names; the task text it embeds is the plan's task.
_create_chain_command(chain_id, background) ==
    [description       |-> <<"Chain-", ChainLetter(chain_id), " verify">>,
     prompt            |-> <<"CHAIN_PROMPT", chain_id>>,
     subagent_type     |-> "general-purpose",
     run_in_background |-> background]

\* one _create_chain_command per chain, all with the same flag
ChainCommands(chains, background) ==
    [i \in 1..Len(chains) |-> _create_chain_command(chains[i], background)]

PipelineCommands(chains) ==
    [i \in 1..Len(chains) |->
        IF i > 1
        THEN [_create_chain_command(chains[i], FALSE) EXCEPT
                 !.prompt = <<"Previous chain results will be provided.">> \o @]
        ELSE _create_chain_command(chains[i], FALSE)]

TournamentCommands(chains) ==
    [i \in 1..Len(chains) |->
        [_create_chain_command(chains[i], TRUE) EXCEPT
            !.prompt = <<"TOURNAMENT MODE">> \o @]]

CriticLoopCommands ==
    << [description |-> <<"Initial analysis">>, prompt |-> <<"ANALYZE">>,
        subagent_type |-> "Explore", run_in_background |-> FALSE],
       [description |-> <<"Critic review">>, prompt |-> <<"CRITIQUE">>,
        subagent_type |-> "general-purpose", run_in_background |-> FALSE] >>

EnsembleCommands ==
    LET approaches == << <<"analytical", "Explore">>,
                         <<"creative", "general-purpose">>,
                         <<"skeptical", "general-purpose">> >>
    IN  [i \in 1..3 |->
            [description |-> <<"Ensemble ", approaches[i][1]>>,
             prompt |-> <<"ENSEMBLE", approaches[i][1]>>,
             subagent_type |-> approaches[i][2],
             run_in_background |-> TRUE]]

\* bug variant: the coordinator is appended after the workers
SupervisorWorkerCommands_coordinatorLast(chains) ==
    [i \in 1..Len(chains) |->
          [description |-> <<"Worker ", Str(i), " (", ChainLetter(chains[i]), ")">>,
           prompt |-> <<"WORKER", Str(i), chains[i]>>,
           subagent_type |-> "general-purpose",
           run_in_background |-> TRUE]]
    \o << [description |-> <<"Supervisor coordinator">>,
           prompt |-> <<"SUPERVISOR", Str(Len(chains))>>,
           subagent_type |-> "Plan", run_in_background |-> FALSE] >>

SupervisorWorkerCommands(chains) ==
    << [description |-> <<"Supervisor coordinator">>,
        prompt |-> <<"SUPERVISOR", Str(Len(chains))>>,
        subagent_type |-> "Plan", run_in_background |-> FALSE] >>
    \o [i \in 1..Len(chains) |->
          [description |-> <<"Worker ", Str(i), " (", ChainLetter(chains[i]), ")">>,
           prompt |-> <<"WORKER", Str(i), chains[i]>>,
           subagent_type |-> "general-purpose",
           run_in_background |-> TRUE]]

\* bug variant: the reduce item is marked independent like the map items
MapReduceCommands_bgReduce(chains) ==
    [i \in 1..Len(chains) |->
        [description |-> <<"Map worker ", Str(i)>>,
         prompt |-> <<"MAP PHASE", Str(i), Str(Len(chains)), chains[i]>>,
         subagent_type |-> "general-purpose",
         run_in_background |-> TRUE]]
    \o << [description |-> <<"Reduce aggregator">>,
           prompt |-> <<"REDUCE PHASE", Str(Len(chains))>>,
           subagent_type |-> "Plan", run_in_background |-> TRUE] >>

MapReduceCommands(chains) ==
    [i \in 1..Len(chains) |->
        [description |-> <<"Map worker ", Str(i)>>,
         prompt |-> <<"MAP PHASE", Str(i), Str(Len(chains)), chains[i]>>,
         subagent_type |-> "general-purpose",
         run_in_background |-> TRUE]]
    \o << [description |-> <<"Reduce aggregator">>,
           prompt |-> <<"REDUCE PHASE", Str(Len(chains))>>,
           subagent_type |-> "Plan", run_in_background |-> FALSE] >>

\* bug variant: the synthesizer is marked independent like the chain items
HybridCommands_bgSynthesizer(chains) ==
    ChainCommands(chains, TRUE)
    \o << [description |-> <<"Hybrid synthesizer">>,
           prompt |-> <<"HYBRID SYNTHESIS PHASE", Str(Len(chains))>>,
           subagent_type |-> "Plan", run_in_background |-> TRUE] >>

HybridCommands(chains) ==
    ChainCommands(chains, TRUE)
    \o << [description |-> <<"Hybrid synthesizer">>,
           prompt |-> <<"HYBRID SYNTHESIS PHASE", Str(Len(chains))>>,
           subagent_type |-> "Plan", run_in_background |-> FALSE] >>

MeshDistributedCommands(chains) ==
    [i \in 1..Len(chains) |->
        [description |-> <<"Mesh node ", Str(i), " (", ChainLetter(chains[i]), ")">>,
         prompt |-> <<"MESH DISTRIBUTED", Str(i), chains[i]>>,
         subagent_type |-> "Explore",
         run_in_background |-> TRUE,
         mesh_node |-> i - 1]]

MeshOffensiveCommands(chains) ==
    [i \in 1..Len(chains) |->
        [description |-> <<"Offensive node ", Str(i), " (", ChainLetter(chains[i]), ")">>,
         prompt |-> <<"MESH OFFENSIVE", Str(i), chains[i]>>,
         subagent_type |-> "general-purpose",
         run_in_background |-> TRUE,
         mesh_type |-> "offensive"]]

\* USFExecutor.get_task_commands(plan); domain and use_persona do not reach
\* the items it builds
get_task_commands(xp) ==
    LET ct == xp.compute_type
        chains == xp.chains
    IN  CASE ct = "sequential"        -> ChainCommands(chains, FALSE)
          [] ct \in {"parallel", "swarm"} -> ChainCommands(chains, TRUE)
          [] ct = "hivemind"          -> ChainCommands(chains, TRUE)
          [] ct = "pipeline"          -> PipelineCommands(chains)
          [] ct = "tournament"        -> TournamentCommands(chains)
          [] ct = "critic_loop"       -> CriticLoopCommands
          [] ct = "ensemble"          -> EnsembleCommands
          [] ct = "supervisor_worker" -> SupervisorWorkerCommands(chains)
          [] ct = "map_reduce"        -> MapReduceCommands(chains)
          [] ct = "hybrid"            -> HybridCommands(chains)
          [] ct = "mesh_distributed"  -> MeshDistributedCommands(chains)
          [] ct = "mesh_offensive"    -> MeshOffensiveCommands(chains)
          [] OTHER                    -> ChainCommands(chains, TRUE)

\* ArchetypeLoader.synthesize_persona: the SynthesizedPersona, or the
\* ValueError raised for an id that is no key of ARCHETYPES
synthesize_persona(archetype_id, domain) ==
    IF archetype_id \notin Range(ARCHETYPES)
    THEN [raised |-> "ValueError",
          message |-> <<"Unknown archetype: ", archetype_id>>]
    ELSE [archetype_id |-> archetype_id,
          domain       |-> domain,
          title        |-> PersonaTitle(archetype_id, domain)]

\* USFExecutor.create_archetype_panel_commands with a given domain
create_archetype_panel_commands(task, domain, panel_size, required_archetypes) ==
    LET panel == compose_panel(domain, panel_size, required_archetypes)
    IN  [i \in 1..Len(panel) |->
            [description |-> <<PersonaTitle(panel[i], domain), " (", panel[i], ")">>,
             prompt |-> <<"PERSONA", panel[i], domain>>,
             subagent_type |-> "general-purpose",
             run_in_background |-> TRUE]]

_get_aggregation_method(compute_type) ==
    CASE compute_type = "parallel"   -> "confidence_weighted_average"
      [] compute_type = "hivemind"   -> "majority_vote"
      [] compute_type = "swarm"      -> "best_of_n"
      [] compute_type = "tournament" -> "elimination"
      [] compute_type = "sequential" -> "last_result"
      [] compute_type = "pipeline"   -> "chain_refinement"
      [] compute_type = "ensemble"   -> "weighted_combination"
      [] OTHER                       -> "confidence_weighted_average"

\* "parallel" if plan.compute_type in [PARALLEL, SWARM, HIVEMIND] else "sequential"
ExecutionMode(compute_type) ==
    IF compute_type \in {"parallel", "swarm", "hivemind"}
    THEN "parallel" ELSE "sequential"

\* USFExecutor.create_smart_execution_plan: the plan is always built with
\* create_execution_plan's default compute_type, "parallel"
create_smart_execution_plan(task, precision_level, use_archetypes) ==
    LET domain == detect_domain(task)
        xp == create_execution_plan(task, "parallel", precision_level, "autonomous")
        chain_commands == get_task_commands(xp)
        archetype_commands ==
            IF use_archetypes
            THEN create_archetype_panel_commands(
                     task, domain, Min(precision_level + 2, 7), <<>>)
            ELSE <<>>
    IN  [task               |-> task,
         domain_detected    |-> domain,
         precision_level    |-> precision_level,
         compute_type       |-> xp.compute_type,
         chain_commands     |-> chain_commands,
         archetype_commands |-> archetype_commands,
         execution_mode     |-> ExecutionMode(xp.compute_type),
         aggregation        |-> [method |-> _get_aggregation_method(xp.compute_type),
                                 chain_weight |-> <<6, 10>>,
                                 archetype_weight |-> <<4, 10>>],
         total_agents       |-> Len(chain_commands) + Len(archetype_commands)]

(***************************************************************************)
(* Keyword auto-detection                                                  *)
(***************************************************************************)
\* bug variant: the tournament rule is tried before the swarm rule
auto_detect_compute_tournamentFirst(task) ==
    IF ContainsAny(task, {"security", "audit", "vulnerability", "attack"})
    THEN "hivemind"
    ELSE IF ContainsAny(task, {"compare", "evaluate", "test", "benchmark"})
    THEN "tournament"
    ELSE IF ContainsAny(task, {"max", "comprehensive", "thorough", "exhaustive"})
    THEN "swarm"
    ELSE IF ContainsAny(task, {"quick", "simple", "check", "basic"})
    THEN "sequential"
    ELSE "parallel"

auto_detect_compute(task) ==
    IF ContainsAny(task, {"security", "audit", "vulnerability", "attack"})
    THEN "hivemind"
    ELSE IF ContainsAny(task, {"max", "comprehensive", "thorough", "exhaustive"})
    THEN "swarm"
    ELSE IF ContainsAny(task, {"compare", "evaluate", "test", "benchmark"})
    THEN "tournament"
    ELSE IF ContainsAny(task, {"quick", "simple", "check", "basic"})
    THEN "sequential"
    ELSE "parallel"

auto_detect_precision(task) ==
    IF ContainsAny(task, {"security", "critical", "production", "audit"}) THEN 5
    ELSE IF ContainsAny(task, {"thorough", "comprehensive", "detailed"}) THEN 4
    ELSE IF ContainsAny(task, {"quick", "simple", "basic", "fast"}) THEN 1
    ELSE 3

auto_detect_parameters(task) ==
    [compute_type    |-> auto_detect_compute(task),
     precision_level |-> auto_detect_precision(task)]

(***************************************************************************)
(* USFRunner.prepare                                                       *)
(***************************************************************************)
\* `x or d` on compute_type
OrCompute(compute_type, d) == IF compute_type = None THEN d ELSE compute_type

\* `x or d` on precision_level (None is 0)
OrPrecision(precision_level, d) == IF precision_level = 0 THEN d ELSE precision_level

\* the chain_commands prepare puts in the plan when it overrides compute_type
PrepareOverride(plan_dict, task, compute_type, precision_level) ==
    [plan_dict EXCEPT
        !.compute_type = compute_type,
        !.chain_commands = get_task_commands(
            create_execution_plan(task, compute_type, precision_level, "autonomous"))]

prepare(task, compute_type, precision_level, use_archetypes, auto) ==
    LET detect == auto \/ (compute_type = None /\ precision_level = 0)
        ct == IF detect THEN OrCompute(compute_type, auto_detect_compute(task))
                        ELSE OrCompute(compute_type, "parallel")
        pl == IF detect THEN OrPrecision(precision_level, auto_detect_precision(task))
                        ELSE OrPrecision(precision_level, 3)
        plan_dict == create_smart_execution_plan(task, pl, use_archetypes)
    IN  IF ct # plan_dict.compute_type
        THEN PrepareOverride(plan_dict, task, ct, pl)
        ELSE plan_dict

(***************************************************************************)
(* The command line (src/src/usf.py main).  --compute defaults to          *)
(* "parallel" and --precision to 3; the plan is what --json prints, with   *)
(* chain_commands under the name task_invocations.                         *)
(***************************************************************************)
\* "Override compute type if specified": the plan with compute_type and the
\* regenerated chain_commands
CliOverride(plan_dict, task, compute_type, precision) ==
    [plan_dict EXCEPT
        !.compute_type = compute_type,
        !.chain_commands = get_task_commands(
            create_execution_plan(task, compute_type, precision, "autonomous"))]

\* the plan built from compute_type and precision as set after --auto
CliPlan(task, compute, auto, no_archetypes, compute_type, precision) ==
    IF compute # "parallel" \/ ~auto
    THEN CliOverride(create_smart_execution_plan(task, precision, ~no_archetypes),
                     task, compute_type, precision)
    ELSE create_smart_execution_plan(task, precision, ~no_archetypes)

main(task, compute, precision, auto, no_archetypes) ==
    CliPlan(task, compute, auto, no_archetypes,
            IF auto THEN auto_detect_parameters(task).compute_type ELSE compute,
            IF auto THEN auto_detect_parameters(task).precision_level
                    ELSE precision)

(***************************************************************************)
(* Result parser.                                                          *)
(*                                                                         *)
(* A text is a sequence of tokens: the two fences (three backticks with    *)
(* and without the json tag, written with ^ for the backtick), the word    *)
(* "confidence" (in two letter cases), ":", whitespace " ", the            *)
(* characters of numbers ("0", "1", "3", "9", "."), the JSON punctuation and    *)
(* a few inert words.  A JSON document is the token sequence json.dumps    *)
(* would write for it, so both regular expressions of parse_task_output    *)
(* see what is inside a fenced block.                                      *)
(*                                                                         *)
(* A confidence is the rational <<n, d>>.  float() is modelled on what     *)
(* the character class [0-9.] lets through (digits with at most one dot);  *)
(* signs, exponents, "nan" and "inf" are outside the token alphabet.       *)
(***************************************************************************)
FENCE_JSON == "^^^json"

FENCE == "^^^"

Digits == {"0", "1", "3", "8", "9"}

DigitValue(c) ==
    CASE c = "0" -> 0 [] c = "1" -> 1 [] c = "3" -> 3 [] c = "8" -> 8 [] c = "9" -> 9

\* str.lower() on one token
LowerToken(t) ==
    CASE t = "Confidence" -> "confidence"
      [] t = "Archetype"  -> "archetype"
      [] OTHER            -> t

\* raw_output.lower()
LowerText(text) == [i \in 1..Len(text) |-> LowerToken(text[i])]

\* \s
IsSpace(t) == t = " "

RECURSIVE Pow10(_)
Pow10(k) == IF k = 0 THEN 1 ELSE 10 * Pow10(k - 1)

RECURSIVE DigitsToInt(_)
DigitsToInt(ds) ==
    IF ds = <<>> THEN 0
    ELSE 10 * DigitsToInt(SubSeq(ds, 1, Len(ds) - 1)) + DigitValue(ds[Len(ds)])

\* float(s) succeeds on a string of the characters [0-9.]: at most one dot
\* and at least one digit
IsFloatLiteral(s) ==
    /\ s # <<>>
    /\ \A i \in 1..Len(s) : s[i] \in Digits \cup {"."}
    /\ Cardinality({i \in 1..Len(s) : s[i] = "."}) <= 1
    /\ \E i \in 1..Len(s) : s[i] \in Digits

\* float(s) for such a string, as the rational <<n, d>>
FloatOf(s) ==
    LET dots == {i \in 1..Len(s) : s[i] = "."}
        dot == IF dots = {} THEN Len(s) + 1 ELSE CHOOSE i \in dots : TRUE
        ds == SelectSeq(s, LAMBDA c : c # ".")
    IN  <<DigitsToInt(ds), Pow10(Len(s) - Min(dot, Len(s)))>>

Half == <<1, 2>>

\* bug variant: the confidence is returned as parsed
Clamp_unclamped(c) == c

\* min(1.0, max(0.0, confidence))
Clamp(c) ==
    IF c[1] < 0 THEN <<0, 1>> ELSE IF c[1] > c[2] THEN <<1, 1>> ELSE c

(***************************************************************************)
(* JSON documents an agent may put in a fenced block                       *)
(***************************************************************************)
Quoted(s) == <<"\"">> \o s \o <<"\"">>

\* renderings of the "confidence" member: absent, null, 0.3, 9, "high", "0.3", [1]
ConfidenceMembers ==
    { <<>>, <<"null">>, <<"0", ".", "3">>, <<"9">>, Quoted(<<"high">>),
      Quoted(<<"0", ".", "3">>), <<"[", "1", "]">> }

\* renderings of the "result" member: absent, "ok", "confidence:9", 9
ResultMembers ==
    { <<>>, Quoted(<<"ok">>), Quoted(<<"confidence", ":", "9">>), <<"9">> }

\* the text of the JSON object with the given members
RenderObject(conf, result) ==
    <<"{">>
    \o (IF conf = <<>> THEN <<>> ELSE Quoted(<<"confidence">>) \o <<":">> \o conf)
    \o (IF conf # <<>> /\ result # <<>> THEN <<",">> ELSE <<>>)
    \o (IF result = <<>> THEN <<>> ELSE Quoted(<<"result">>) \o <<":">> \o result)
    \o <<"}">>

ObjectDocs ==
    {[conf |-> c, result |-> r] : c \in ConfidenceMembers, r \in ResultMembers}

\* a JSON value that is not an object
ListDoc == <<"[", "1", "]">>

\* what json.loads gives for one member's text
\*   kind: "absent" | "null" | "number" | "string" | "list"
DecodeMember(m) ==
    CASE m = <<>>      -> [kind |-> "absent", text |-> <<>>]
      [] m = <<"null">> -> [kind |-> "null", text |-> <<>>]
      [] m # <<>> /\ m[1] = "\"" ->
            [kind |-> "string", text |-> SubSeq(m, 2, Len(m) - 1)]
      [] m # <<>> /\ m[1] = "[" -> [kind |-> "list", text |-> <<>>]
      [] OTHER         -> [kind |-> "number", text |-> m]

\* a JSON number: digits, optionally a dot and more digits
IsJsonNumber(s) ==
    /\ IsFloatLiteral(s)
    /\ s[1] # "."
    /\ s[Len(s)] # "."
    /\ (Len(s) > 1 /\ s[1] = "0") => s[2] = "."

\* json.loads(text):
\*   [kind |-> "error"]                   JSONDecodeError
\*   [kind |-> "object", conf, result]    a dict with these members
\*   [kind |-> "other"]                   a list or a number: not a dict
json_loads(text) ==
    IF \E d \in ObjectDocs : RenderObject(d.conf, d.result) = text
    THEN LET d == CHOOSE d \in ObjectDocs : RenderObject(d.conf, d.result) = text
         IN  [kind |-> "object", conf |-> DecodeMember(d.conf),
              result |-> DecodeMember(d.result)]
    ELSE IF text = ListDoc \/ IsJsonNumber(text)
         THEN [kind |-> "other", conf |-> DecodeMember(<<>>),
               result |-> DecodeMember(<<>>)]
         ELSE [kind |-> "error", conf |-> DecodeMember(<<>>),
               result |-> DecodeMember(<<>>)]

(***************************************************************************)
(* The two regular expressions of parse_task_output                        *)
(***************************************************************************)
\* the last index m >= k - 1 with text[k..m] all in S (k - 1: no token of S at k)
RunEnd(text, k, S) ==
    CHOOSE m \in (k - 1)..Len(text) :
        /\ \A x \in k..m : text[x] \in S
        /\ m = Len(text) \/ text[m + 1] \notin S

\* text with leading and trailing whitespace removed
Trim(text) ==
    LET a == RunEnd(text, 1, {" "}) + 1
        keep == {i \in a..Len(text) : \E j \in i..Len(text) : ~IsSpace(text[j])}
    IN  [i \in 1..Cardinality(keep) |-> text[a + i - 1]]

\* re.search(FENCE_JSON \s* (.*?) \s* FENCE, text, DOTALL): the leftmost json
\* fence that has a fence after it, up to the first fence after it.  The json
\* fence begins with the bare fence, so it closes a block as well.
FenceSearch(text) ==
    LET closes(i) == {j \in (i + 1)..Len(text) : text[j] \in {FENCE, FENCE_JSON}}
        opens == {i \in 1..Len(text) : text[i] = FENCE_JSON /\ closes(i) # {}}
    IN  IF opens = {} THEN [found |-> FALSE, group1 |-> <<>>]
        ELSE LET i == CHOOSE a \in opens : \A b \in opens : a <= b
                 j == CHOOSE a \in closes(i) : \A b \in closes(i) : a <= b
             IN  [found |-> TRUE, group1 |-> Trim(SubSeq(text, i + 1, j - 1))]

\* [:\s]
LabelSeparators == {":", " "}

\* [0-9.]
NumberChars == Digits \cup {"."}

\* re.search(confidence [:\s]+ ([0-9.]+), text): the leftmost "confidence"
\* followed by at least one separator and then at least one number character;
\* group 1 is the longest run of number characters there
LabelSearch(text) ==
    LET sepEnd(i) == RunEnd(text, i + 1, LabelSeparators)
        numEnd(i) == RunEnd(text, sepEnd(i) + 1, NumberChars)
        hits == {i \in 1..Len(text) :
                    /\ text[i] = "confidence"
                    /\ sepEnd(i) >= i + 1
                    /\ numEnd(i) >= sepEnd(i) + 1}
    IN  IF hits = {} THEN [found |-> FALSE, group1 |-> <<>>]
        ELSE LET i == CHOOSE a \in hits : \A b \in hits : a <= b
             IN  [found |-> TRUE,
                  group1 |-> SubSeq(text, sepEnd(i) + 1, numEnd(i))]

(***************************************************************************)
(* USFExecutor.parse_task_output                                           *)
(*                                                                         *)
(* The outcome is a record: raised is "none" and the other fields are the  *)
(* ChainResult returned, or raised names the exception that left the call. *)
(* result_kind is "str" for a text and "number" for a JSON number taken    *)
(* from the block.                                                         *)
(***************************************************************************)
Raised(exc) ==
    [raised |-> exc, result_kind |-> "str", result |-> <<>>, confidence |-> <<0, 1>>]

Returned(kind, result, confidence) ==
    [raised |-> "none", result_kind |-> kind, result |-> result,
     confidence |-> confidence]

\* the try block: data = json.loads(...); confidence = float(data.get(...));
\* result = data.get("result", raw_output).  JSONDecodeError and ValueError
\* are caught and leave both defaults in place; anything else leaves the call.
BlockStep(raw_output) ==
    LET m == FenceSearch(raw_output)
        defaults == Returned("str", raw_output, Half)
        data == json_loads(m.group1)
        result_kind == IF data.result.kind = "number" THEN "number" ELSE "str"
        result == IF data.result.kind = "absent" THEN raw_output ELSE data.result.text
    IN  IF ~m.found THEN defaults
        ELSE CASE data.kind = "error" -> defaults
               [] data.kind = "other" -> Raised("AttributeError")
               [] data.kind = "object" ->
                    CASE data.conf.kind = "absent" ->
                           Returned(result_kind, result, Half)
                      [] data.conf.kind = "number" ->
                           Returned(result_kind, result, FloatOf(data.conf.text))
                      [] data.conf.kind = "string" ->
                           IF IsFloatLiteral(data.conf.text)
                           THEN Returned(result_kind, result, FloatOf(data.conf.text))
                           ELSE defaults
                      [] OTHER -> Raised("TypeError")

\* the confidence after the label search: float(group 1), divided by 100 when
\* above 1; a ValueError of float leaves the confidence as it was
LabelStep(raw_output, confidence) ==
    LET m == LabelSearch(LowerText(raw_output))
        c == FloatOf(m.group1)
    IN  IF m.found /\ IsFloatLiteral(m.group1)
        THEN IF c[1] > c[2] THEN <<c[1], c[2] * 100>> ELSE c
        ELSE confidence

parse_task_output(raw_output) ==
    LET b == BlockStep(raw_output)
    IN  IF b.raised # "none" THEN b
        ELSE Returned(b.result_kind, b.result,
                      Clamp(LabelStep(raw_output, b.confidence)))

\* parse_task_output on the result of an earlier parse: re.search raises
\* TypeError on a value that is not a string
parse_result_value(result_kind, result) ==
    IF result_kind # "str" THEN Raised("TypeError") ELSE parse_task_output(result)

(***************************************************************************)
(* Arithmetic on confidences (exact rationals <<n, d>>, d > 0)             *)
(***************************************************************************)
RECURSIVE Gcd(_, _)
Gcd(a, b) == IF b = 0 THEN a ELSE Gcd(b, a % b)

RatNorm(c) ==
    LET g == Gcd(IF c[1] < 0 THEN -c[1] ELSE c[1], c[2])
    IN  <<c[1] \div g, c[2] \div g>>

RatAdd(a, b) == RatNorm(<<a[1] * b[2] + b[1] * a[2], a[2] * b[2]>>)

RatMul(a, b) == RatNorm(<<a[1] * b[1], a[2] * b[2]>>)

\* a / b for b > 0
RatDiv(a, b) == RatNorm(<<a[1] * b[2], a[2] * b[1]>>)

RatEq(a, b) == a[1] * b[2] = b[1] * a[2]

RatLess(a, b) == a[1] * b[2] < b[1] * a[2]

RatLeq(a, b) == a[1] * b[2] <= b[1] * a[2]

\* sum(...) over a list of confidences
RECURSIVE RatSum(_)
RatSum(cs) == IF cs = <<>> THEN <<0, 1>> ELSE RatAdd(cs[1], RatSum(Tail(cs)))

(***************************************************************************)
(* USFExecutor.aggregate_results.  A result dict is a record with exactly  *)
(* the keys the code puts in it.                                           *)
(***************************************************************************)
Confidences(rs) == [i \in 1..Len(rs) |-> rs[i].confidence]

\* max(rs, key=lambda r: r.confidence): the first item of greatest confidence
MaxByConfidence(rs) ==
    rs[CHOOSE i \in 1..Len(rs) :
          /\ \A j \in 1..Len(rs) : RatLeq(rs[j].confidence, rs[i].confidence)
          /\ \A j \in 1..(i - 1) : RatLess(rs[j].confidence, rs[i].confidence)]

\* bug variant: an ascending sort reversed, which turns ties around
SortedByConfidenceDesc_tiesReversed(rs) ==
    LET rank(i) ==
            1 + Cardinality({j \in 1..Len(rs) :
                                RatLess(rs[i].confidence, rs[j].confidence)})
              + Cardinality({j \in (i + 1)..Len(rs) :
                                RatEq(rs[i].confidence, rs[j].confidence)})
    IN  [k \in 1..Len(rs) |-> rs[CHOOSE i \in 1..Len(rs) : rank(i) = k]]

\* sorted(rs, key=lambda r: r.confidence, reverse=True): a stable sort, so
\* items of equal confidence keep their input order
SortedByConfidenceDesc(rs) ==
    LET rank(i) ==
            1 + Cardinality({j \in 1..Len(rs) :
                                RatLess(rs[i].confidence, rs[j].confidence)})
              + Cardinality({j \in 1..(i - 1) :
                                RatEq(rs[i].confidence, rs[j].confidence)})
    IN  [k \in 1..Len(rs) |-> rs[CHOOSE i \in 1..Len(rs) : rank(i) = k]]

\* bug variant: the plain mean of the confidences
WeightedConfidence_mean(rs) ==
    RatDiv(RatSum(Confidences(rs)), <<Len(rs), 1>>)

\* sum(r.confidence ** 2 for r in results) / total_weight
WeightedConfidence(rs) ==
    RatDiv(RatSum([i \in 1..Len(rs) |-> RatMul(rs[i].confidence, rs[i].confidence)]),
           RatSum(Confidences(rs)))

\* the branch method == "confidence_weighted_average"
ConfidenceWeightedAverage(rs) ==
    IF RatSum(Confidences(rs))[1] = 0
    THEN [confidence |-> <<0, 1>>, result |-> rs[1].result,
          status |-> "zero_confidence"]
    ELSE [confidence |-> WeightedConfidence(rs),
          result |-> MaxByConfidence(rs).result,
          method |-> "confidence_weighted_average",
          chain_count |-> Len(rs),
          status |-> "success"]

\* bug variant: the consensus confidence is the mean over all results
MajorityVote_meanOfAll(rs) ==
    LET high_conf == SelectSeq(rs, LAMBDA r : RatLeq(<<6, 10>>, r.confidence))
    IN  IF Len(rs) < 3 THEN ConfidenceWeightedAverage(rs)
        ELSE IF 10 * Len(high_conf) >= 6 * Len(rs)
        THEN [confidence |-> RatDiv(RatSum(Confidences(rs)), <<Len(rs), 1>>),
              result |-> MaxByConfidence(high_conf).result,
              method |-> "majority_vote",
              votes |-> Len(high_conf),
              status |-> "consensus"]
        ELSE [confidence |-> Half, result |-> rs[1].result,
              status |-> "no_consensus"]

\* the branch method == "majority_vote"; len(high_conf) >= len(results) * 0.6
\* is compared exactly
MajorityVote(rs) ==
    LET high_conf == SelectSeq(rs, LAMBDA r : RatLeq(<<6, 10>>, r.confidence))
    IN  IF Len(rs) < 3 THEN ConfidenceWeightedAverage(rs)
        ELSE IF 10 * Len(high_conf) >= 6 * Len(rs)
        THEN [confidence |-> RatDiv(RatSum(Confidences(high_conf)),
                                    <<Len(high_conf), 1>>),
              result |-> MaxByConfidence(high_conf).result,
              method |-> "majority_vote",
              votes |-> Len(high_conf),
              status |-> "consensus"]
        ELSE [confidence |-> Half, result |-> rs[1].result,
              status |-> "no_consensus"]

\* the branch method == "best_of_n"
BestOfN(rs) ==
    LET best == MaxByConfidence(rs)
    IN  [confidence |-> best.confidence, result |-> best.result,
         method |-> "best_of_n", chain_id |-> best.chain_id,
         status |-> "success"]

\* the branch method == "elimination"
Elimination(rs) ==
    LET winner == SortedByConfidenceDesc(rs)[1]
    IN  [confidence |-> winner.confidence, result |-> winner.result,
         method |-> "elimination", winner |-> winner.chain_id,
         status |-> "success"]

\* the final else branch ("Default: last result")
LastResult(rs) ==
    [confidence |-> rs[Len(rs)].confidence, result |-> rs[Len(rs)].result,
     method |-> "last_result", status |-> "success"]

\* bug variant: an empty list is given the default confidence
NoResults_half == [confidence |-> Half, result |-> <<>>, status |-> "no_results"]

\* what aggregate_results returns for an empty list
NoResults == [confidence |-> <<0, 1>>, result |-> <<>>, status |-> "no_results"]

aggregate_results(rs, compute_type) ==
    LET method == _get_aggregation_method(compute_type)
    IN  IF rs = <<>>
        THEN NoResults
        ELSE CASE method = "confidence_weighted_average" ->
                    ConfidenceWeightedAverage(rs)
               [] method = "majority_vote" -> MajorityVote(rs)
               [] method = "best_of_n"     -> BestOfN(rs)
               [] method = "elimination"   -> Elimination(rs)
               [] OTHER                    -> LastResult(rs)


(***************************************************************************)
(* USFExecutor.aggregate_from_json.  An output dict and the plan dict are  *)
(* records holding the keys the caller supplied; a label (description or   *)
(* task_id) is a token sequence like a raw text.  The outcome is the       *)
(* verdict dict, or [raised |-> exception] when the call does not return.  *)
(***************************************************************************)
\* d.get(key, default)
Get(d, key, default) == IF key \in DOMAIN d THEN d[key] ELSE default

\* ComputeType(compute_type_str), ComputeType.PARALLEL on ValueError
ComputeTypeOrParallel(compute_type_str) ==
    IF compute_type_str \in Range(ComputeTypes) THEN compute_type_str
    ELSE "parallel"

\* "ARC-" in text: every archetype id begins with ARC-
ContainsArc(text) == \E i \in 1..Len(text) : text[i] \in Range(ARCHETYPES)

\* bug variant: only the word "archetype" in the label marks a persona result
IsArchetypeResult_wordOnly(chain_id, raw_output) ==
    \E i \in 1..Len(chain_id) : LowerToken(chain_id[i]) = "archetype"

\* "archetype" in chain_id.lower() or "ARC-" in chain_id or "ARC-" in raw_output
IsArchetypeResult(chain_id, raw_output) ==
    \/ \E i \in 1..Len(chain_id) : LowerToken(chain_id[i]) = "archetype"
    \/ ContainsArc(chain_id)
    \/ ContainsArc(raw_output)

\* the loop body up to the classification: the ChainResult of one output and
\* the list it goes to (agent_id is set and never read)
ParseOutput(output) ==
    LET chain_id == Get(output, "description",
                        Get(output, "task_id", <<"unknown">>))
        raw_output == Get(output, "output", <<>>)
        chain_result == parse_task_output(raw_output)
    IN  [chain_id    |-> chain_id,
         raised      |-> chain_result.raised,
         result_kind |-> chain_result.result_kind,
         result      |-> chain_result.result,
         confidence  |-> chain_result.confidence,
         archetype   |-> IsArchetypeResult(chain_id, raw_output)]

\* r.result[:500] keeps at most this many characters
PreviewLength == 500

\* {"id": r.chain_id, "confidence": r.confidence, "result": r.result[:500]}
Preview(r) ==
    [id |-> r.chain_id, confidence |-> r.confidence,
     result |-> Take(r.result, PreviewLength)]

\* the verdict when no output is a chain result
NoChainResults == [confidence |-> <<0, 1>>, status |-> "no_chain_results"]

\* bug variant: chains and archetypes weigh the same
BlendConfidence_even(chain_confidence, archetype_confidence) ==
    RatAdd(RatMul(chain_confidence, <<5, 10>>),
           RatMul(archetype_confidence, <<5, 10>>))

\* (chain_confidence * 0.6) + (archetype_confidence * 0.4)
BlendConfidence(chain_confidence, archetype_confidence) ==
    RatAdd(RatMul(chain_confidence, <<6, 10>>),
           RatMul(archetype_confidence, <<4, 10>>))

\* the loop over task_outputs: one ChainResult per output, in order
ParseAll(outputs) == [i \in 1..Len(outputs) |-> ParseOutput(outputs[i])]

\* the exception that leaves the call, or "none": the first parse that raises,
\* else r.result[:500] on a result that is not a text
RaisedBy(all_results) ==
    LET raising == {i \in 1..Len(all_results) : all_results[i].raised # "none"}
    IN  IF raising # {}
        THEN all_results[CHOOSE i \in raising : \A j \in raising : i <= j].raised
        ELSE IF \E i \in 1..Len(all_results) : all_results[i].result_kind # "str"
        THEN "TypeError"
        ELSE "none"

\* "Aggregate chain results"
ReduceChains(chain_results, compute_type) ==
    IF chain_results # <<>> THEN aggregate_results(chain_results, compute_type)
    ELSE NoChainResults

\* "Combine confidences": the confidence the verdict ends with
CombinedConfidence(chain_confidence, chain_results, archetype_results) ==
    IF archetype_results = <<>> THEN chain_confidence
    ELSE IF chain_results # <<>>
    THEN BlendConfidence(chain_confidence,
                         RatDiv(RatSum(Confidences(archetype_results)),
                                <<Len(archetype_results), 1>>))
    ELSE RatDiv(RatSum(Confidences(archetype_results)),
                <<Len(archetype_results), 1>>)

\* the keys aggregate_from_json sets on the dict of the chain reduction
VerdictOf(aggregated, chain_results, archetype_results, total_agents, compute_type_str, precision_level) ==
    [confidence         |-> CombinedConfidence(aggregated.confidence,
                                               chain_results, archetype_results),
     chain_results      |-> [i \in 1..Len(chain_results) |->
                                Preview(chain_results[i])],
     archetype_results  |-> [i \in 1..Len(archetype_results) |->
                                Preview(archetype_results[i])],
     chain_count        |-> Len(chain_results),
     archetype_count    |-> Len(archetype_results),
     total_agents       |-> total_agents,
     compute_type       |-> compute_type_str,
     precision_level    |-> precision_level,
     aggregation_method |->
         _get_aggregation_method(ComputeTypeOrParallel(compute_type_str))]
    @@ aggregated

\* the call after the loop, on the ChainResults the loop built
SplitAndReduce(all_results, chain_results, archetype_results, compute_type_str, precision_level) ==
    IF RaisedBy(all_results) # "none" THEN [raised |-> RaisedBy(all_results)]
    ELSE VerdictOf(ReduceChains(chain_results,
                                ComputeTypeOrParallel(compute_type_str)),
                   chain_results, archetype_results, Len(all_results),
                   compute_type_str, precision_level)

\* the two lists the loop appends to
SplitResults(all_results, compute_type_str, precision_level) ==
    SplitAndReduce(all_results,
                   SelectSeq(all_results, LAMBDA r : ~r.archetype),
                   SelectSeq(all_results, LAMBDA r : r.archetype),
                   compute_type_str, precision_level)

aggregate_from_json(outputs, plan_dict) ==
    SplitResults(ParseAll(outputs),
                 Get(plan_dict, "compute_type", "parallel"),
                 Get(plan_dict, "precision_level", 3))

(***************************************************************************)
(* Planning calls: one call per behaviour                                  *)
(***************************************************************************)
PrecisionLevels == 1..5

\* a topology name that is no member of ComputeType
UnknownTopology == "ring"

NoPlan == [task |-> {}, compute_type |-> None]

NoXPlan == [task |-> {}, compute_type |-> None]

\* the variables of the parts a behaviour does not use
PlanIdle == plan = NoPlan /\ xplan = NoXPlan

HostIdle == items = <<>> /\ started = {} /\ completed = {}

ParseIdle == raw = <<>> /\ parsed = Raised("none") /\ reparsed = Raised("none")

AggregateIdle ==
    /\ results = <<>>
    /\ ctype = None
    /\ verdict = [status |-> "none"]
    /\ task_outputs = <<>>

CallIdle == args = <<>> /\ ret = <<>>

InitPlan ==
    /\ op = "none"
    /\ PlanIdle
    /\ HostIdle
    /\ ParseIdle
    /\ AggregateIdle
    /\ CallIdle

CreateExecutionPlan ==
    /\ op = "none"
    /\ \E task \in Tasks, ct \in Range(ComputeTypes) \cup {UnknownTopology},
          pl \in PrecisionLevels, profile \in {"autonomous", "fire_and_forget"} :
            xplan' = create_execution_plan(task, ct, pl, profile)
    /\ op' = IF "raised" \in DOMAIN xplan' THEN "create_execution_plan raised"
             ELSE "create_execution_plan"
    /\ UNCHANGED <<plan, items, started, completed, raw, parsed, reparsed,
                   results, ctype, verdict, task_outputs, args, ret>>

\* get_task_commands on the plan create_execution_plan returned
GetTaskCommands ==
    /\ op = "create_execution_plan"
    /\ items' = get_task_commands(xplan)
    /\ op' = "get_task_commands"
    /\ UNCHANGED <<plan, xplan, started, completed, raw, parsed, reparsed,
                   results, ctype, verdict, task_outputs, args, ret>>

CreateSmartExecutionPlan ==
    /\ op = "none"
    /\ \E task \in Tasks, pl \in PrecisionLevels, use_archetypes \in BOOLEAN :
            plan' = create_smart_execution_plan(task, pl, use_archetypes)
    /\ op' = "create_smart_execution_plan"
    /\ UNCHANGED <<xplan, items, started, completed, raw, parsed, reparsed,
                   results, ctype, verdict, task_outputs, args, ret>>

Prepare ==
    /\ op = "none"
    /\ \E task \in Tasks, ct \in Range(ComputeTypes) \cup {None},
          pl \in PrecisionLevels \cup {0}, use_archetypes \in BOOLEAN,
          auto \in BOOLEAN :
            plan' = prepare(task, ct, pl, use_archetypes, auto)
    /\ op' = "prepare"
    /\ UNCHANGED <<xplan, items, started, completed, raw, parsed, reparsed,
                   results, ctype, verdict, task_outputs, args, ret>>

\* a run of the command line with a task
CliMain ==
    /\ op = "none"
    /\ \E task \in Tasks, compute \in Range(ComputeTypes),
          precision \in PrecisionLevels, auto \in BOOLEAN,
          no_archetypes \in BOOLEAN :
            /\ args' = [task |-> task, compute |-> compute,
                        precision |-> precision, auto |-> auto,
                        no_archetypes |-> no_archetypes]
            /\ plan' = main(task, compute, precision, auto, no_archetypes)
    /\ op' = "main"
    /\ UNCHANGED <<xplan, items, started, completed, raw, parsed, reparsed,
                   results, ctype, verdict, task_outputs, ret>>

NextPlan ==
    \/ CreateExecutionPlan
    \/ GetTaskCommands
    \/ CreateSmartExecutionPlan
    \/ Prepare
    \/ CliMain

SpecPlan == InitPlan /\ [][NextPlan]_vars

\* C1: every plan handed to a caller (by create_smart_execution_plan or by
\* USFRunner.prepare) has total_agents = len(chain_commands) + len(archetype_commands).
C1_TotalAgentsIsItemCount ==
    op \in {"create_smart_execution_plan", "prepare"} =>
        plan.total_agents = Len(plan.chain_commands) + Len(plan.archetype_commands)

\* C2: in every plan handed to a caller, execution_mode is "parallel" exactly
\* when compute_type is parallel, swarm or hivemind, and "sequential" otherwise.
C2_ExecutionModeMatchesComputeType ==
    op \in {"create_smart_execution_plan", "prepare"} =>
        /\ plan.execution_mode \in {"parallel", "sequential"}
        /\ plan.execution_mode = "parallel"
              <=> plan.compute_type \in {"parallel", "swarm", "hivemind"}

\* the fixed table of the chain selector, by chain letter
ChainTable ==
    [p \in PrecisionLevels |->
        CASE p = 1 -> <<"A">>
          [] p = 2 -> <<"A", "B">>
          [] p = 3 -> <<"A", "B", "D">>
          [] p = 4 -> <<"A", "B", "C", "D", "E", "F">>
          [] p = 5 -> <<"A", "B", "C", "D", "E", "F", "G", "H", "I">>]

\* C3: for every precision level 1..5 the chains selected are exactly those
\* of the fixed table, in declaration order (level 3 is A, B, D), and a lower
\* level never selects more chains.
C3_ChainsMatchTable ==
    op = "create_execution_plan" =>
        /\ [i \in 1..Len(xplan.chains) |-> ChainLetter(xplan.chains[i])]
               = ChainTable[xplan.precision_level]
        /\ \A q \in PrecisionLevels :
               q <= xplan.precision_level =>
                   Len(get_chains_for_precision(q)) <= Len(xplan.chains)

C3_Witness ==
    /\ op = "create_execution_plan"
    /\ xplan.precision_level = 3
    /\ xplan.chains = <<"A_SINGLE_SOURCE", "B_DUAL_SOURCE", "D_ADVERSARIAL">>

(***************************************************************************)
(* The external host running a plan's work items.  The host is not part of *)
(* the repository; its scheduling is the contract the work items' flag     *)
(* states: an item with run_in_background = TRUE may start at any time, an *)
(* item with run_in_background = FALSE starts only once every item before  *)
(* it in the list has completed.                                           *)
(***************************************************************************)
InitHost ==
    /\ op = "host"
    /\ \E ct \in Range(ComputeTypes), pl \in PrecisionLevels :
          /\ xplan = create_execution_plan({}, ct, pl, "autonomous")
          /\ items = get_task_commands(xplan)
    /\ plan = NoPlan
    /\ started = {}
    /\ completed = {}
    /\ ParseIdle
    /\ AggregateIdle
    /\ CallIdle

MayStart(i) ==
    items[i].run_in_background \/ \A j \in 1..(i - 1) : j \in completed

HostStart ==
    /\ op = "host"
    /\ \E i \in 1..Len(items) :
          /\ i \notin started
          /\ MayStart(i)
          /\ started' = started \cup {i}
    /\ UNCHANGED <<op, plan, xplan, items, completed, raw, parsed, reparsed,
                   results, ctype, verdict, task_outputs, args, ret>>

HostComplete ==
    /\ op = "host"
    /\ \E i \in started \ completed : completed' = completed \cup {i}
    /\ UNCHANGED <<op, plan, xplan, items, started, raw, parsed, reparsed,
                   results, ctype, verdict, task_outputs, args, ret>>

NextHost == HostStart \/ HostComplete

SpecHost == InitHost /\ [][NextHost]_vars

\* C4: in a map_reduce or hybrid plan run by such a host, the trailing
\* reduce / synthesizer item is never started before every per-chain item
\* has completed.
C4_ReduceStartsAfterAllChainItems ==
    (op = "host" /\ xplan.compute_type \in {"map_reduce", "hybrid"}) =>
        (Len(items) \in started =>
            \A i \in 1..Len(xplan.chains) : i \in completed)

C4_Witness ==
    /\ op = "host"
    /\ xplan.compute_type = "map_reduce"
    /\ Len(xplan.chains) >= 3
    /\ Len(items) = Len(xplan.chains) + 1
    /\ Len(items) \in started

(***************************************************************************)
(* Parser calls: a raw text, parsed, and the result parsed again           *)
(***************************************************************************)
MaxPieces == 4

FreeTokens ==
    {FENCE_JSON, FENCE, "confidence", "Confidence", ":", " ", "1", "9", "."}

\* a fenced block holding a document
FencedBlock(doc) == <<FENCE_JSON, " ">> \o doc \o <<" ", FENCE>>

Blocks ==
    {FencedBlock(RenderObject(d.conf, d.result)) : d \in ObjectDocs}
        \cup {FencedBlock(ListDoc)}

InitParse ==
    /\ op = "none"
    /\ \E b \in Blocks \cup {<<>>} :
         \E n \in 0..(IF b = <<>> THEN MaxPieces ELSE MaxPieces - 1) :
           \E f \in [1..n -> FreeTokens] :
             \E k \in (IF b = <<>> THEN {0} ELSE 0..n) :
               raw = SubSeq(f, 1, k) \o b \o SubSeq(f, k + 1, n)
    /\ parsed = Raised("none")
    /\ reparsed = Raised("none")
    /\ PlanIdle
    /\ HostIdle
    /\ AggregateIdle
    /\ CallIdle

ParseTaskOutput ==
    /\ op = "none"
    /\ parsed' = parse_task_output(raw)
    /\ op' = "parse_task_output"
    /\ UNCHANGED <<plan, xplan, items, started, completed, raw, reparsed,
                   results, ctype, verdict, task_outputs, args, ret>>

ParseResultAgain ==
    /\ op = "parse_task_output"
    /\ parsed.raised = "none"
    /\ reparsed' = parse_result_value(parsed.result_kind, parsed.result)
    /\ op' = "parse_again"
    /\ UNCHANGED <<plan, xplan, items, started, completed, raw, parsed,
                   results, ctype, verdict, task_outputs, args, ret>>

NextParse == ParseTaskOutput \/ ParseResultAgain

SpecParse == InitParse /\ [][NextParse]_vars

\* a confidence within [0, 1]
InUnit(c) == RatLeq(<<0, 1>>, c) /\ RatLeq(c, <<1, 1>>)

\* the raw text has a fenced block whose content json.loads decodes
HasDecodableBlock(text) ==
    FenceSearch(text).found /\ json_loads(FenceSearch(text).group1).kind # "error"

\* the numeric tokens that follow a confidence label anywhere in the text
LabelledNumbers(text) ==
    LET low == LowerText(text)
        sepEnd(i) == RunEnd(low, i + 1, LabelSeparators)
        token(i) == SubSeq(low, sepEnd(i) + 1,
                           RunEnd(low, sepEnd(i) + 1, NumberChars))
    IN  {token(i) : i \in {k \in 1..Len(low) :
                              /\ low[k] = "confidence"
                              /\ sepEnd(k) >= k + 1
                              /\ IsFloatLiteral(token(k))}}

\* n when n <= 1 and n / 100 when n > 1, then clamped
LabelValue(token) ==
    LET n == FloatOf(token)
    IN  Clamp(IF RatLess(<<1, 1>>, n) THEN RatDiv(n, <<100, 1>>) ELSE n)

\* C5: parse_task_output never raises, whatever the raw text holds, and when
\* the text has neither a decodable block nor a confidence label the result is
\* confidence 0.5 with the raw text as result.
C5_ParseNeverRaises ==
    op = "parse_task_output" =>
        /\ parsed.raised = "none"
        /\ (~HasDecodableBlock(raw) /\ ~LabelSearch(LowerText(raw)).found) =>
               /\ RatEq(parsed.confidence, Half)
               /\ parsed.result_kind = "str"
               /\ parsed.result = raw

\* C6: whenever the raw text contains a confidence label followed by a numeric
\* token n, the confidence returned is n (n <= 1) or n / 100 (n > 1), clamped,
\* whatever a fenced block in the same text carried.
C6_LabelOverridesBlock ==
    (op = "parse_task_output" /\ LabelledNumbers(raw) # {}) =>
        /\ parsed.raised = "none"
        /\ \E token \in LabelledNumbers(raw) :
               RatEq(parsed.confidence, LabelValue(token))

\* C7: when the raw text has a fenced block that decodes to an object and no
\* confidence label, the confidence returned is the block's confidence field,
\* or 0.5 if the field is absent or not a number, and the result is the
\* block's result field, or the raw text if the field is absent, whatever the
\* confidence field holds.
C7_BlockFieldsAreUsed ==
    (/\ op = "parse_task_output"
     /\ FenceSearch(raw).found
     /\ json_loads(FenceSearch(raw).group1).kind = "object"
     /\ ~LabelSearch(LowerText(raw)).found) =>
        LET data == json_loads(FenceSearch(raw).group1)
        IN  /\ parsed.raised = "none"
            /\ data.conf.kind = "number" =>
                   RatEq(parsed.confidence, Clamp(FloatOf(data.conf.text)))
            /\ (data.conf.kind \in {"absent", "null", "list"}
                  \/ (data.conf.kind = "string" /\ ~IsFloatLiteral(data.conf.text))) =>
                   RatEq(parsed.confidence, Half)
            /\ parsed.result = (IF data.result.kind = "absent" THEN raw
                                ELSE data.result.text)

\* C8: the confidence of a parse lies in [0, 1], and parsing the result of a
\* parse again also succeeds with a confidence in [0, 1].
C8_ReparseStaysInUnit ==
    /\ (op = "parse_task_output" /\ parsed.raised = "none") =>
           InUnit(parsed.confidence)
    /\ op = "parse_again" =>
           reparsed.raised = "none" /\ InUnit(reparsed.confidence)

(***************************************************************************)
(* Aggregation calls: a list of chain results reduced under a compute type *)
(***************************************************************************)
MaxResults == 4

\* confidences in tenths: 0, 0.3, 0.6, 0.8, 0.9, 1
ConfidenceValues ==
    {<<0, 1>>, <<3, 10>>, <<6, 10>>, <<8, 10>>, <<9, 10>>, <<1, 1>>}

\* ChainResult(chain_id, result, confidence) of the i-th chain
ChainResult(i, confidence) ==
    [chain_id |-> CHAIN_PROMPTS[i], result |-> <<"analysis", Str(i)>>,
     confidence |-> confidence]

InitAgg ==
    /\ op = "none"
    /\ \E n \in 0..MaxResults :
         \E cs \in [1..n -> ConfidenceValues] :
           results = [i \in 1..n |-> ChainResult(i, cs[i])]
    /\ ctype \in Range(ComputeTypes)
    /\ verdict = [status |-> "none"]
    /\ task_outputs = <<>>
    /\ PlanIdle
    /\ HostIdle
    /\ ParseIdle
    /\ CallIdle

AggregateResults ==
    /\ op = "none"
    /\ ctype # None
    /\ verdict' = aggregate_results(results, ctype)
    /\ op' = "aggregate_results"
    /\ UNCHANGED <<plan, xplan, items, started, completed, raw, parsed,
                   reparsed, results, ctype, task_outputs, args, ret>>

NextAgg == AggregateResults

SpecAgg == InitAgg /\ [][NextAgg]_vars

\* the sum of the confidences of a list, and of their squares
SumOfConfidences(rs) == RatSum([i \in 1..Len(rs) |-> rs[i].confidence])

SumOfSquares(rs) ==
    RatSum([i \in 1..Len(rs) |-> RatMul(rs[i].confidence, rs[i].confidence)])

\* the texts of the items no other item exceeds in confidence
HighestConfidenceTexts(rs) ==
    {rs[i].result : i \in {k \in 1..Len(rs) :
        \A j \in 1..Len(rs) : RatLeq(rs[j].confidence, rs[k].confidence)}}

\* what the confidence-weighted reduction of a non-empty list returns
IsConfidenceWeighted(v, rs) ==
    IF SumOfConfidences(rs)[1] = 0
    THEN /\ RatEq(v.confidence, <<0, 1>>)
         /\ v.status = "zero_confidence"
         /\ v.result = rs[1].result
    ELSE /\ RatEq(RatMul(v.confidence, SumOfConfidences(rs)), SumOfSquares(rs))
         /\ v.status = "success"
         /\ v.result \in HighestConfidenceTexts(rs)

\* C9: for pipeline and ensemble, aggregate_results gives the confidence and
\* the representative result of the confidence-weighted average of the same
\* list: sum(c^2) / sum(c) and the text of the highest-confidence item.
C9_PipelineEnsembleAreWeightedAverage ==
    (op = "aggregate_results" /\ ctype \in {"pipeline", "ensemble"}
        /\ results # <<>>) =>
        IF SumOfConfidences(results)[1] = 0
        THEN RatEq(verdict.confidence, <<0, 1>>)
                /\ verdict.result = results[1].result
        ELSE RatEq(RatMul(verdict.confidence, SumOfConfidences(results)),
                   SumOfSquares(results))
                /\ verdict.result \in HighestConfidenceTexts(results)

\* the topologies reduced by confidence-weighted average: parallel and every
\* topology _get_aggregation_method has no entry for
WeightedTypes ==
    {"parallel", "critic_loop", "supervisor_worker", "map_reduce", "hybrid",
     "mesh_distributed", "mesh_offensive"}

\* C10: the confidence-weighted reduction of a non-empty list returns
\* confidence 0, status zero_confidence and the first item's text when the
\* confidences sum to 0, and otherwise sum(c^2) / sum(c), status success and
\* the text of the highest-confidence item; 0.8 and 0.9 give 1.45 / 1.7.
C10_WeightedReduction ==
    (op = "aggregate_results" /\ ctype \in WeightedTypes /\ results # <<>>) =>
        /\ IsConfidenceWeighted(verdict, results)
        /\ Confidences(results) = <<<<8, 10>>, <<9, 10>>>> =>
               /\ RatEq(verdict.confidence, <<145, 170>>)
               /\ ~RatEq(verdict.confidence, <<85, 100>>)

C10_Witness ==
    /\ op = "aggregate_results"
    /\ ctype = "parallel"
    /\ Confidences(results) = <<<<8, 10>>, <<9, 10>>>>
    /\ verdict.status = "success"
    /\ verdict.result = results[2].result
    /\ RatEq(verdict.confidence, <<145, 170>>)

\* the results of confidence at least 0.6
HighSubset(rs) == SelectSeq(rs, LAMBDA r : RatLeq(<<6, 10>>, r.confidence))

\* C11: hivemind reduction of n results: for n < 3 it returns what the
\* confidence-weighted average returns on the same list; for n >= 3 with at
\* least 0.6 * n results of confidence >= 0.6 the status is consensus, the
\* confidence the mean of that subset and the result the text of its
\* highest-confidence item; otherwise no_consensus, exactly 0.5 and the
\* first item's text.
C11_HivemindMajorityVote ==
    (op = "aggregate_results" /\ ctype = "hivemind" /\ results # <<>>) =>
        IF Len(results) < 3
        THEN /\ IsConfidenceWeighted(verdict, results)
             /\ verdict = aggregate_results(results, "parallel")
        ELSE IF 10 * Len(HighSubset(results)) >= 6 * Len(results)
        THEN /\ verdict.status = "consensus"
             /\ RatEq(RatMul(verdict.confidence, <<Len(HighSubset(results)), 1>>),
                      SumOfConfidences(HighSubset(results)))
             /\ verdict.result \in HighestConfidenceTexts(HighSubset(results))
        ELSE /\ verdict.status = "no_consensus"
             /\ verdict.confidence = Half
             /\ verdict.result = results[1].result

\* four results, three of them high: the threshold 0.6 * 4 is met
C11_Witness ==
    /\ op = "aggregate_results"
    /\ ctype = "hivemind"
    /\ Confidences(results) = << <<3, 10>>, <<6, 10>>, <<9, 10>>, <<8, 10>> >>
    /\ verdict.status = "consensus"
    /\ verdict.result = results[3].result
    /\ RatEq(verdict.confidence, <<23, 30>>)

(***************************************************************************)
(* Top-level aggregation calls: the outputs a host returned, reduced under *)
(* the plan dict the caller passes                                         *)
(***************************************************************************)
MaxOutputs == 2

\* source labels: a chain item, a persona item, a label with the word only
ChainLabel == <<"Chain-", "A", " verify">>

PersonaLabel == <<PersonaTitle("ARC-QA", "software"), " (", "ARC-QA", ")">>

WordLabel == <<"Archetype", " review">>

\* raw payloads: labelled confidences 0.8, 0.3 and 0, a text without a label,
\* a text naming an archetype id, a block that is a list, a block whose
\* result is a number, a block with confidence 9
Payloads ==
    { <<"confidence", ":", ".", "8">>,
      <<"confidence", ":", ".", "3">>,
      <<"confidence", ":", "0">>,
      <<"ok">>,
      <<"ARC-QA", " ", "confidence", ":", "1">>,
      FencedBlock(ListDoc),
      FencedBlock(RenderObject(<<"9">>, <<"9">>)),
      FencedBlock(RenderObject(<<"9">>, <<>>)) }

\* the output dicts a host may return for the item with the given task id:
\* a chain item with any payload, a persona item, and dicts with keys missing
OutputDicts(task_id) ==
    {[task_id |-> task_id, description |-> ChainLabel, output |-> o] :
        o \in Payloads}
    \cup {[task_id |-> task_id, description |-> PersonaLabel, output |-> o] :
            o \in {<<"confidence", ":", ".", "9">>,
                   <<"confidence", ":", ".", "3">>,
                   <<"ok">>,
                   FencedBlock(RenderObject(<<"9">>, <<"9">>))}}
    \cup {[task_id |-> task_id, description |-> WordLabel,
           output |-> <<"confidence", ":", ".", "3">>]}
    \cup {[task_id |-> task_id, output |-> o] :
            o \in {<<"confidence", ":", ".", "9">>,
                   <<"ARC-QA", " ", "confidence", ":", "1">>}}
    \cup {[task_id |-> task_id, description |-> ChainLabel]}
    \cup {<<>>}

\* the dict with its task_id, if it has one, set to the given one
WithTaskId(output, task_id) ==
    IF "task_id" \in DOMAIN output THEN [output EXCEPT !.task_id = task_id]
    ELSE output

\* plan dicts: every topology and one name outside the enum, or no key at all
PlanDicts ==
    {[compute_type |-> ct, precision_level |-> 2] :
        ct \in Range(ComputeTypes) \cup {UnknownTopology}}
    \cup {<<>>}

InitJson ==
    /\ op = "none"
    /\ \E n \in 0..MaxOutputs :
         \E os \in [1..n -> OutputDicts(<<"1">>)] :
           task_outputs = [i \in 1..n |-> WithTaskId(os[i], <<Str(i)>>)]
    /\ plan \in PlanDicts
    /\ xplan = NoXPlan
    /\ results = <<>>
    /\ ctype = None
    /\ verdict = [status |-> "none"]
    /\ HostIdle
    /\ ParseIdle
    /\ CallIdle

AggregateFromJson ==
    /\ op = "none"
    /\ plan # NoPlan
    /\ verdict' = aggregate_from_json(task_outputs, plan)
    /\ op' = "aggregate_from_json"
    /\ UNCHANGED <<plan, xplan, items, started, completed, raw, parsed,
                   reparsed, results, ctype, task_outputs, args, ret>>

NextJson == AggregateFromJson

SpecJson == InitJson /\ [][NextJson]_vars

\* the call returned a verdict
ReturnedVerdict == "raised" \notin DOMAIN verdict

\* the chain results a verdict lists, as the list given to aggregate_results
ListedChainResults ==
    [i \in 1..Len(verdict.chain_results) |->
        [chain_id   |-> verdict.chain_results[i].id,
         result     |-> verdict.chain_results[i].result,
         confidence |-> verdict.chain_results[i].confidence]]

\* the confidence of the reduction of the listed chain results
ChainReductionConfidence ==
    aggregate_results(ListedChainResults,
                      ComputeTypeOrParallel(Get(plan, "compute_type", "parallel")))
        .confidence

\* the mean confidence of the persona results a verdict lists
PersonaMeanConfidence ==
    RatDiv(SumOfConfidences(verdict.archetype_results),
           <<Len(verdict.archetype_results), 1>>)

\* C12: with at least one persona result the verdict confidence is
\* 0.6 * chain-reduction confidence + 0.4 * mean persona confidence when
\* there is a chain result and the mean persona confidence when there is
\* none; with no persona result it is the chain-reduction confidence.
C12_BlendedConfidence ==
    (op = "aggregate_from_json" /\ ReturnedVerdict) =>
        IF verdict.archetype_results # <<>>
        THEN IF verdict.chain_results # <<>>
             THEN RatEq(RatMul(verdict.confidence, <<10, 1>>),
                        RatAdd(RatMul(<<6, 1>>, ChainReductionConfidence),
                               RatMul(<<4, 1>>, PersonaMeanConfidence)))
             ELSE RatEq(verdict.confidence, PersonaMeanConfidence)
        ELSE verdict.chain_results # <<>> =>
                 RatEq(verdict.confidence, ChainReductionConfidence)

\* chain 0.8 and persona 0.5 give 0.68
C12_Witness ==
    /\ op = "aggregate_from_json"
    /\ ReturnedVerdict
    /\ Len(verdict.chain_results) = 1
    /\ Len(verdict.archetype_results) = 1
    /\ verdict.chain_results[1].confidence = <<8, 10>>
    /\ verdict.archetype_results[1].confidence = <<1, 2>>
    /\ RatEq(verdict.confidence, <<68, 100>>)

(***************************************************************************)
(* Every verdict: a call of either aggregation entry point                 *)
(***************************************************************************)
InitVerdict == InitAgg \/ InitJson

NextVerdict == AggregateResults \/ AggregateFromJson

SpecVerdict == InitVerdict /\ [][NextVerdict]_vars

\* C13: the confidence of every verdict returned by aggregate_results and by
\* aggregate_from_json lies in [0, 1], for every list of results, every mix
\* of chain and persona results and every topology.
C13_VerdictConfidenceInUnit ==
    (op \in {"aggregate_results", "aggregate_from_json"} /\ ReturnedVerdict) =>
        InUnit(verdict.confidence)

\* a chain result whose block carried confidence 9, blended with a persona
\* result: the verdict is within [0, 1]
C13_Witness ==
    /\ op = "aggregate_from_json"
    /\ ReturnedVerdict
    /\ \E i \in 1..Len(task_outputs) :
          Get(task_outputs[i], "output", <<>>)
              = FencedBlock(RenderObject(<<"9">>, <<>>))
    /\ verdict.archetype_count = 1
    /\ verdict.chain_count = 1
    /\ InUnit(verdict.confidence)

\* the source label of an output: its description, else its task_id
SourceLabel(output) ==
    Get(output, "description", Get(output, "task_id", <<"unknown">>))

\* the label carries an archetype marker: the word, or an archetype id
HasArchetypeMarker(label) ==
    \E i \in 1..Len(label) :
        LowerToken(label[i]) = "archetype" \/ label[i] \in Range(ARCHETYPES)

\* the labels of the outputs whose label has, or has not, a marker, in order
LabelsWithMarker(outputs, marked) ==
    LET picked == SelectSeq(outputs,
                     LAMBDA o : HasArchetypeMarker(SourceLabel(o)) = marked)
    IN  [i \in 1..Len(picked) |-> SourceLabel(picked[i])]

\* C14: aggregate_from_json puts every output in exactly one list, an output
\* being a persona result exactly when its source label carries an archetype
\* marker, whatever its raw text holds; so chain_count + archetype_count =
\* total_agents = the number of outputs.
C14_SplitBySourceLabel ==
    (op = "aggregate_from_json" /\ ReturnedVerdict) =>
        /\ verdict.chain_count + verdict.archetype_count = verdict.total_agents
        /\ verdict.total_agents = Len(task_outputs)
        /\ [i \in 1..Len(verdict.archetype_results) |->
               verdict.archetype_results[i].id]
              = LabelsWithMarker(task_outputs, TRUE)
        /\ [i \in 1..Len(verdict.chain_results) |-> verdict.chain_results[i].id]
              = LabelsWithMarker(task_outputs, FALSE)

\* C15: for zero results the aggregator reports a status with confidence 0
\* and does not raise: aggregate_results of the empty list gives no_results
\* for every topology, aggregate_from_json of no outputs no_chain_results.
C15_EmptyInputIsAStatus ==
    /\ (op = "aggregate_results" /\ results = <<>>) =>
           /\ ReturnedVerdict
           /\ RatEq(verdict.confidence, <<0, 1>>)
           /\ verdict.status = "no_results"
    /\ (op = "aggregate_from_json" /\ task_outputs = <<>>) =>
           /\ ReturnedVerdict
           /\ RatEq(verdict.confidence, <<0, 1>>)
           /\ verdict.status = "no_chain_results"

C15_Witness ==
    /\ op = "aggregate_results"
    /\ results = <<>>
    /\ ctype = "tournament"
    /\ verdict.status = "no_results"

\* C16: for any subset of a plan's results, with missing or malformed
\* payloads, aggregate_from_json returns a verdict with a confidence and a
\* status instead of raising.
C16_PartialResultsGiveAVerdict ==
    op = "aggregate_from_json" =>
        /\ ReturnedVerdict
        /\ {"confidence", "status"} \subseteq DOMAIN verdict

\* the keys every verdict of aggregate_from_json is to expose
VerdictKeys ==
    {"confidence", "result", "status", "aggregation_method", "chain_results",
     "archetype_results", "chain_count", "archetype_count", "total_agents",
     "compute_type", "precision_level"}

\* C17: every verdict returned by aggregate_from_json exposes confidence, a
\* representative result, a status, the aggregation_method label, both result
\* lists with previews of at most 500 characters, the three counts, and the
\* compute_type and precision_level supplied in the plan.
C17_VerdictExposesAllFields ==
    (op = "aggregate_from_json" /\ ReturnedVerdict) =>
        /\ VerdictKeys \subseteq DOMAIN verdict
        /\ \A i \in 1..Len(verdict.chain_results) :
               Len(verdict.chain_results[i].result) <= 500
        /\ \A i \in 1..Len(verdict.archetype_results) :
               Len(verdict.archetype_results[i].result) <= 500
        /\ "compute_type" \in DOMAIN plan =>
               verdict.compute_type = plan.compute_type
        /\ "precision_level" \in DOMAIN plan =>
               verdict.precision_level = plan.precision_level

\* C18: the aggregation_method label of a verdict of aggregate_from_json
\* agrees with the method field aggregate_results produced for the chain
\* results, whenever that field is present.
C18_MethodLabelNamesReduction ==
    (/\ op = "aggregate_from_json"
     /\ ReturnedVerdict
     /\ verdict.chain_results # <<>>
     /\ "method" \in DOMAIN verdict) =>
        verdict.aggregation_method = verdict.method

\* the chain a per-chain work item is for: its prompt ends with the chain id
ItemChain(item) == item.prompt[Len(item.prompt)]

\* C19: an unrecognised topology never makes planning fail:
\* create_execution_plan followed by get_task_commands with a name outside
\* the 13 values yields the work items of the parallel topology.
C19_UnknownTopologyPlansAsParallel ==
    /\ op # "create_execution_plan raised"
    /\ (op = "get_task_commands"
          /\ xplan.compute_type \notin Range(ComputeTypes)) =>
           items = get_task_commands([xplan EXCEPT !.compute_type = "parallel"])

\* C20: for a chain list of length k get_task_commands returns k items in
\* chain order for sequential, parallel, swarm, hivemind, pipeline,
\* tournament and the two mesh topologies; k + 1 items for supervisor_worker
\* (coordinator first), map_reduce and hybrid (coordinator last); 2 items for
\* critic_loop and 3 for ensemble; so the list is never empty.
C20_WorkItemCounts ==
    op = "get_task_commands" =>
        LET k == Len(xplan.chains)
            ct == xplan.compute_type
            InChainOrder(offset) ==
                \A i \in 1..k : ItemChain(items[i + offset]) = xplan.chains[i]
        IN  /\ items # <<>>
            /\ ct \in {"sequential", "parallel", "swarm", "hivemind", "pipeline",
                       "tournament", "mesh_distributed", "mesh_offensive"} =>
                   Len(items) = k /\ InChainOrder(0)
            /\ ct = "supervisor_worker" =>
                   /\ Len(items) = k + 1
                   /\ items[1].subagent_type = "Plan"
                   /\ InChainOrder(1)
            /\ ct \in {"map_reduce", "hybrid"} =>
                   /\ Len(items) = k + 1
                   /\ items[k + 1].subagent_type = "Plan"
                   /\ InChainOrder(0)
            /\ ct = "critic_loop" => Len(items) = 2
            /\ ct = "ensemble" => Len(items) = 3

C20_Witness ==
    /\ op = "get_task_commands"
    /\ xplan.compute_type = "supervisor_worker"
    /\ xplan.precision_level = 5
    /\ Len(items) = 10
    /\ items[1].description = <<"Supervisor coordinator">>
    /\ ItemChain(items[10]) = "I_STREAMING"

\* C21: get_task_commands sets run_in_background per topology: false on every
\* item for sequential, pipeline and critic_loop; true on every item for
\* parallel, swarm, hivemind, tournament, ensemble and the two mesh
\* topologies; false on the first item only for supervisor_worker; false on
\* the last item only for map_reduce and hybrid.
C21_IndependenceFlags ==
    op = "get_task_commands" =>
        LET ct == xplan.compute_type
            n == Len(items)
        IN  /\ ct \in {"sequential", "pipeline", "critic_loop"} =>
                   \A i \in 1..n : ~items[i].run_in_background
            /\ ct \in {"parallel", "swarm", "hivemind", "tournament", "ensemble",
                       "mesh_distributed", "mesh_offensive"} =>
                   \A i \in 1..n : items[i].run_in_background
            /\ ct = "supervisor_worker" =>
                   \A i \in 1..n : items[i].run_in_background <=> i # 1
            /\ ct \in {"map_reduce", "hybrid"} =>
                   \A i \in 1..n : items[i].run_in_background <=> i # n

C21_Witness ==
    /\ op = "get_task_commands"
    /\ xplan.compute_type = "hybrid"
    /\ xplan.precision_level = 4
    /\ Len(items) = 7
    /\ items[1].run_in_background
    /\ ~items[7].run_in_background

\* C22: in a mesh_distributed plan the i-th item (from 0) carries the
\* node-index marker i; in a mesh_offensive plan every item carries a
\* node-index marker and the type tag "offensive"; items of every other
\* topology carry neither.
C22_MeshMarkers ==
    op = "get_task_commands" =>
        LET ct == xplan.compute_type
        IN  \A i \in 1..Len(items) :
              /\ ct = "mesh_distributed" =>
                     /\ "mesh_node" \in DOMAIN items[i]
                     /\ items[i].mesh_node = i - 1
              /\ ct = "mesh_offensive" =>
                     /\ "mesh_node" \in DOMAIN items[i]
                     /\ "mesh_type" \in DOMAIN items[i]
                     /\ items[i].mesh_type = "offensive"
              /\ ct \notin {"mesh_distributed", "mesh_offensive"} =>
                     /\ "mesh_node" \notin DOMAIN items[i]
                     /\ "mesh_type" \notin DOMAIN items[i]

(***************************************************************************)
(* DomainDetector (src/agents/domain_detector.py).  A task given to the    *)
(* detector is a sequence of words, in the order they occur in the text.   *)
(***************************************************************************)
\* DomainDetector.DOMAIN_SIGNATURES in declaration order
DOMAIN_SIGNATURES ==
    << [name |-> "security",
        keywords |-> {"security", "vulnerability", "exploit", "attack",
                      "defense", "authentication", "authorization", "audit",
                      "pentest", "threat", "malware", "injection", "xss",
                      "sqli", "csrf", "ssrf", "rce"},
        archetypes |-> <<"ARC-AD", "ARC-QA", "ARC-IM", "ARC-TH", "ARC-ST">>,
        compute_type |-> "hivemind", precision_level |-> 5],
       [name |-> "crypto",
        keywords |-> {"cryptography", "encryption", "decryption", "cipher",
                      "hash", "signature", "certificate", "key", "aes", "rsa",
                      "elliptic", "post-quantum", "zkp", "commitment",
                      "protocol"},
        archetypes |-> <<"ARC-TH", "ARC-AD", "ARC-IM", "ARC-QA", "ARC-ST">>,
        compute_type |-> "hivemind", precision_level |-> 5],
       [name |-> "systems",
        keywords |-> {"architecture", "design", "scalability", "performance",
                      "distributed", "microservices", "infrastructure",
                      "devops", "kubernetes", "docker", "cloud", "aws",
                      "azure", "gcp"},
        archetypes |-> <<"ARC-ST", "ARC-IM", "ARC-QA", "ARC-TH", "ARC-AD">>,
        compute_type |-> "parallel", precision_level |-> 3],
       [name |-> "development",
        keywords |-> {"code", "programming", "function", "class", "module",
                      "refactor", "test", "debug", "optimize", "implement",
                      "api", "sdk", "library", "framework"},
        archetypes |-> <<"ARC-IM", "ARC-QA", "ARC-TH", "ARC-ST", "ARC-AD">>,
        compute_type |-> "parallel", precision_level |-> 3],
       [name |-> "research",
        keywords |-> {"research", "analyze", "investigate", "compare",
                      "evaluate", "study", "survey", "literature",
                      "state-of-art", "trend"},
        archetypes |-> <<"ARC-TH", "ARC-ST", "ARC-IM", "ARC-QA", "ARC-AD">>,
        compute_type |-> "swarm", precision_level |-> 4],
       [name |-> "legal",
        keywords |-> {"compliance", "regulation", "gdpr", "hipaa", "pci",
                      "sox", "legal", "policy", "governance", "audit",
                      "standard"},
        archetypes |-> <<"ARC-QA", "ARC-TH", "ARC-ST", "ARC-IM", "ARC-AD">>,
        compute_type |-> "hivemind", precision_level |-> 4] >>

\* DomainDetector.COMPUTE_KEYWORDS in declaration order
COMPUTE_KEYWORDS ==
    << [keyword |-> "quick",         compute_type |-> "sequential", precision_level |-> 1],
       [keyword |-> "simple",        compute_type |-> "sequential", precision_level |-> 1],
       [keyword |-> "fast",          compute_type |-> "sequential", precision_level |-> 2],
       [keyword |-> "thorough",      compute_type |-> "swarm",      precision_level |-> 5],
       [keyword |-> "comprehensive", compute_type |-> "swarm",      precision_level |-> 5],
       [keyword |-> "max",           compute_type |-> "swarm",      precision_level |-> 5],
       [keyword |-> "compare",       compute_type |-> "tournament", precision_level |-> 3],
       [keyword |-> "evaluate",      compute_type |-> "tournament", precision_level |-> 3],
       [keyword |-> "consensus",     compute_type |-> "hivemind",   precision_level |-> 4],
       [keyword |-> "vote",          compute_type |-> "hivemind",   precision_level |-> 4] >>

\* matched: the keywords of the i-th domain that occur in the task
Matched(task, i) ==
    {kw \in DOMAIN_SIGNATURES[i].keywords : Contains(Range(task), kw)}

\* score = len(matched) / len(config["keywords"])
Score(task, i) ==
    <<Cardinality(Matched(task, i)), Cardinality(DOMAIN_SIGNATURES[i].keywords)>>

\* best_score when best_domain is the i-th domain; 0 stands for None
BestScore(task, best) == IF best = 0 THEN <<0, 1>> ELSE Score(task, best)

\* bug variant: a later domain of equal score replaces the best one
RECURSIVE BestDomainFrom_lastOnTies(_, _, _)
BestDomainFrom_lastOnTies(task, i, best) ==
    IF i > Len(DOMAIN_SIGNATURES) THEN best
    ELSE BestDomainFrom_lastOnTies(task, i + 1,
             IF Matched(task, i) # {}
                  /\ RatLeq(BestScore(task, best), Score(task, i))
             THEN i ELSE best)

\* the loop "Check each domain" from the i-th domain on
RECURSIVE BestDomainFrom(_, _, _)
BestDomainFrom(task, i, best) ==
    IF i > Len(DOMAIN_SIGNATURES) THEN best
    ELSE BestDomainFrom(task, i + 1,
             IF Matched(task, i) # {}
                  /\ RatLess(BestScore(task, best), Score(task, i))
             THEN i ELSE best)

\* bug variant: the override of the keyword that occurs first in the text
FirstOverride_textOrder(task, i) ==
    LET hits == {k \in 1..Len(COMPUTE_KEYWORDS) :
                    \E j \in 1..Len(task) :
                        /\ COMPUTE_KEYWORDS[k].keyword \in KeywordsIn(Lower(task[j]))
                        /\ \A x \in 1..(j - 1), y \in 1..Len(COMPUTE_KEYWORDS) :
                               COMPUTE_KEYWORDS[y].keyword
                                   \notin KeywordsIn(Lower(task[x]))}
    IN  IF hits = {} THEN 0 ELSE CHOOSE k \in hits : \A y \in hits : k <= y

\* the loop over COMPUTE_KEYWORDS from the i-th entry on: the entry it breaks
\* at, 0 when no keyword occurs
RECURSIVE FirstOverride(_, _)
FirstOverride(task, i) ==
    IF i > Len(COMPUTE_KEYWORDS) THEN 0
    ELSE IF Contains(Range(task), COMPUTE_KEYWORDS[i].keyword) THEN i
    ELSE FirstOverride(task, i + 1)

\* the DetectedDomain returned for a domain, given compute_type and
\* precision_level as the override loop left them
DomainConfig(task, best, compute_type, precision_level) ==
    [name             |-> DOMAIN_SIGNATURES[best].name,
     confidence       |-> Score(task, best),
     keywords_matched |-> Matched(task, best),
     archetypes       |-> DOMAIN_SIGNATURES[best].archetypes,
     compute_type     |-> IF compute_type = "parallel" /\ precision_level = 3
                          THEN DOMAIN_SIGNATURES[best].compute_type
                          ELSE compute_type,
     precision_level  |-> IF compute_type = "parallel" /\ precision_level = 3
                          THEN DOMAIN_SIGNATURES[best].precision_level
                          ELSE precision_level]

\* "Default domain"
GeneralDomain(compute_type, precision_level) ==
    [name             |-> "general",
     confidence       |-> <<0, 1>>,
     keywords_matched |-> {},
     archetypes       |-> <<"ARC-TH", "ARC-AD", "ARC-IM", "ARC-ST", "ARC-QA">>,
     compute_type     |-> compute_type,
     precision_level  |-> precision_level]

\* the return statements of detect
DetectedDomain(task, best, override) ==
    IF best # 0
    THEN DomainConfig(task, best,
             IF override = 0 THEN "parallel"
             ELSE COMPUTE_KEYWORDS[override].compute_type,
             IF override = 0 THEN 3
             ELSE COMPUTE_KEYWORDS[override].precision_level)
    ELSE GeneralDomain(
             IF override = 0 THEN "parallel"
             ELSE COMPUTE_KEYWORDS[override].compute_type,
             IF override = 0 THEN 3
             ELSE COMPUTE_KEYWORDS[override].precision_level)

\* DomainDetector.detect
detect(task) ==
    DetectedDomain(task, BestDomainFrom(task, 1, 0), FirstOverride(task, 1))

(***************************************************************************)
(* Calls of the pure operations of the detector, the archetype loader and  *)
(* the keyword auto-detection: one call per behaviour, on arguments drawn  *)
(* from bounded sets                                                       *)
(***************************************************************************)
MaxWords == 3

MaxRequired == 2

\* words of a task given to the detector: domain keywords of five domains
\* (audit is a keyword of two), override keywords, and a word that is neither
DetectorVocabulary ==
    {"SECURITY", "audit", "hash", "cloud", "code", "compare", "legal",
     "quick", "thorough", "consensus", "hello"}

\* texts of at most MaxWords distinct words
DetectorTasks ==
    {t \in UNION {[1..n -> DetectorVocabulary] : n \in 0..MaxWords} :
        \A i, j \in 1..Len(t) : i # j => t[i] # t[j]}

\* archetype ids given by a caller: the five known ones and others
ArchetypeIds == Range(ARCHETYPES) \cup {"ARC-XX", "arc-th", ""}

\* domain names given by a caller: keys of the title maps and others
DomainNames ==
    {"security", "crypto", "software", "legal", "default", "systems",
     "general"}

\* required_archetypes lists given by a caller
RequiredLists ==
    UNION {[1..n -> Range(ARCHETYPES) \cup {"ARC-XX"}] : n \in 0..MaxRequired}

PanelSizes == 0..7

\* words of a task given to the keyword auto-detection
AutoVocabulary ==
    {"SECURITY", "thorough", "compare", "quick", "critical", "detailed",
     "fast", "check", "hello"}

InitCalls ==
    /\ op = "none"
    /\ CallIdle
    /\ PlanIdle
    /\ HostIdle
    /\ ParseIdle
    /\ AggregateIdle

Detect ==
    /\ op = "none"
    /\ \E task \in DetectorTasks :
          /\ args' = [task |-> task]
          /\ ret' = detect(task)
    /\ op' = "detect"
    /\ UNCHANGED <<plan, xplan, items, started, completed, raw, parsed,
                   reparsed, results, ctype, verdict, task_outputs>>

SynthesizePersona ==
    /\ op = "none"
    /\ \E archetype_id \in ArchetypeIds, domain \in DomainNames :
          /\ args' = [archetype_id |-> archetype_id, domain |-> domain]
          /\ ret' = synthesize_persona(archetype_id, domain)
    /\ op' = "synthesize_persona"
    /\ UNCHANGED <<plan, xplan, items, started, completed, raw, parsed,
                   reparsed, results, ctype, verdict, task_outputs>>

\* compose_panel works on a copy, list(required_archetypes): the caller's
\* list is after the call what it was before
ComposePanel ==
    /\ op = "none"
    /\ \E panel_size \in PanelSizes, required_archetypes \in RequiredLists :
          /\ args' = [domain |-> "software", panel_size |-> panel_size,
                      required_archetypes |-> required_archetypes,
                      required_archetypes_after |-> required_archetypes]
          /\ ret' = compose_panel("software", panel_size, required_archetypes)
    /\ op' = "compose_panel"
    /\ UNCHANGED <<plan, xplan, items, started, completed, raw, parsed,
                   reparsed, results, ctype, verdict, task_outputs>>

AutoDetectParameters ==
    /\ op = "none"
    /\ \E task \in SUBSET AutoVocabulary :
          /\ args' = [task |-> task]
          /\ ret' = auto_detect_parameters(task)
    /\ op' = "auto_detect_parameters"
    /\ UNCHANGED <<plan, xplan, items, started, completed, raw, parsed,
                   reparsed, results, ctype, verdict, task_outputs>>

NextCalls == Detect \/ SynthesizePersona \/ ComposePanel \/ AutoDetectParameters

SpecCalls == InitCalls /\ [][NextCalls]_vars

\* the domains with a keyword in the task
MatchingDomains(task) ==
    {i \in 1..Len(DOMAIN_SIGNATURES) : Matched(task, i) # {}}

\* C23: detect selects the domain of strictly highest ratio
\* matched / total keywords, the first-declared one on ties and never one
\* without a match, and reports that ratio as confidence; when no domain
\* matches it returns general with confidence 0, no matched keywords and the
\* fixed five-archetype list.
C23_DetectSelectsHighestRatio ==
    op = "detect" =>
        IF MatchingDomains(args.task) = {}
        THEN /\ ret.name = "general"
             /\ RatEq(ret.confidence, <<0, 1>>)
             /\ ret.keywords_matched = {}
             /\ ret.archetypes = <<"ARC-TH", "ARC-AD", "ARC-IM", "ARC-ST", "ARC-QA">>
        ELSE \E i \in MatchingDomains(args.task) :
                /\ ret.name = DOMAIN_SIGNATURES[i].name
                /\ RatEq(ret.confidence, Score(args.task, i))
                /\ \A j \in MatchingDomains(args.task) :
                      /\ RatLeq(Score(args.task, j), Score(args.task, i))
                      /\ j < i => RatLess(Score(args.task, j), Score(args.task, i))

\* systems and development tie at 1/14; systems is declared first
C23_Witness ==
    /\ op = "detect"
    /\ args.task = <<"code", "cloud">>
    /\ ret.name = "systems"
    /\ RatEq(ret.confidence, <<1, 14>>)

\* the COMPUTE_KEYWORDS entries whose keyword occurs in the task
OverrideHits(task) ==
    {k \in 1..Len(COMPUTE_KEYWORDS) :
        Contains(Range(task), COMPUTE_KEYWORDS[k].keyword)}

\* C24: detect takes topology and precision from the first COMPUTE_KEYWORDS
\* entry, in table order, whose keyword occurs in the task; the selected
\* domain's own topology and precision are used exactly when a domain was
\* found and no override keyword matched; with neither it is parallel / 3.
C24_OverrideInTableOrder ==
    op = "detect" =>
        LET hits == OverrideHits(args.task)
            first == CHOOSE k \in hits : \A y \in hits : k <= y
            domains == {i \in 1..Len(DOMAIN_SIGNATURES) :
                           DOMAIN_SIGNATURES[i].name = ret.name}
        IN  IF hits # {}
            THEN /\ ret.compute_type = COMPUTE_KEYWORDS[first].compute_type
                 /\ ret.precision_level = COMPUTE_KEYWORDS[first].precision_level
            ELSE IF ret.name # "general"
            THEN \E i \in domains :
                    /\ ret.compute_type = DOMAIN_SIGNATURES[i].compute_type
                    /\ ret.precision_level = DOMAIN_SIGNATURES[i].precision_level
            ELSE ret.compute_type = "parallel" /\ ret.precision_level = 3

\* compare occurs first in the text, quick is declared first in the table
C24_Witness ==
    /\ op = "detect"
    /\ args.task = <<"compare", "quick">>
    /\ ret.name = "research"
    /\ ret.compute_type = "sequential"
    /\ ret.precision_level = 1

\* C25: synthesize_persona fails with the unknown-archetype error for every
\* archetype id outside the five fixed ones, and for a known id returns a
\* persona whose title is the archetype's title for the given domain, or
\* its default title when the domain is not in its title map.
C25_PersonaTitleOrUnknownArchetype ==
    op = "synthesize_persona" =>
        IF args.archetype_id \notin {"ARC-TH", "ARC-AD", "ARC-IM", "ARC-ST", "ARC-QA"}
        THEN /\ "raised" \in DOMAIN ret
             /\ ret.raised = "ValueError"
             /\ ret.message = <<"Unknown archetype: ", args.archetype_id>>
        ELSE /\ "raised" \notin DOMAIN ret
             /\ ret.archetype_id = args.archetype_id
             /\ ret.title =
                   (IF args.domain \in DOMAIN ArchetypeDomains(args.archetype_id)
                    THEN ArchetypeDomains(args.archetype_id)[args.domain]
                    ELSE ArchetypeDomains(args.archetype_id)["default"])

C25_Witness ==
    /\ op = "synthesize_persona"
    /\ args.archetype_id = "ARC-AD"
    /\ args.domain = "legal"
    /\ ret.title = "Opposing Counsel"

\* the archetypes of the table that are not in a list, in table order
Remaining(listed) == SelectSeq(ARCHETYPES, LAMBDA a : a \notin Range(listed))

\* C26: compose_panel returns at most panel_size ids and never more than 5:
\* the required ids first in the given order, then the remaining archetypes
\* in table order until the size is met; the caller's required list is not
\* modified.
C26_PanelWithinSize ==
    op = "compose_panel" =>
        /\ Len(ret) <= args.panel_size
        /\ Len(ret) <= 5
        /\ ret = Take(args.required_archetypes
                          \o Remaining(args.required_archetypes),
                      args.panel_size)
        /\ args.required_archetypes_after = args.required_archetypes

\* the rules of auto_detect_compute and auto_detect_precision, by priority
ComputeRules ==
    << [keywords |-> {"security", "audit", "vulnerability", "attack"},
        value |-> "hivemind"],
       [keywords |-> {"max", "comprehensive", "thorough", "exhaustive"},
        value |-> "swarm"],
       [keywords |-> {"compare", "evaluate", "test", "benchmark"},
        value |-> "tournament"],
       [keywords |-> {"quick", "simple", "check", "basic"},
        value |-> "sequential"] >>

PrecisionRules ==
    << [keywords |-> {"security", "critical", "production", "audit"}, value |-> 5],
       [keywords |-> {"thorough", "comprehensive", "detailed"}, value |-> 4],
       [keywords |-> {"quick", "simple", "basic", "fast"}, value |-> 1] >>

\* the rules with a keyword in the lower-cased task
RulesMet(rules, task) ==
    {i \in 1..Len(rules) :
        \E w \in task : \E kw \in rules[i].keywords : kw \in KeywordsIn(Lower(w))}

C28_AutoFlagUsesDetectedTopology ==
    (op = "main" /\ args.auto /\ args.compute = "parallel") =>
        /\ plan.compute_type = auto_detect_compute(args.task)
        /\ plan.precision_level = auto_detect_precision(args.task)
        /\ plan.chain_commands =
               get_task_commands(
                   create_execution_plan(args.task,
                                         auto_detect_compute(args.task),
                                         auto_detect_precision(args.task),
                                         "autonomous"))

\* the first item, in input order, that no item exceeds in confidence
FirstOfMaximumConfidence(rs) ==
    CHOOSE i \in 1..Len(rs) :
        /\ \A j \in 1..Len(rs) : RatLeq(rs[j].confidence, rs[i].confidence)
        /\ \A j \in 1..(i - 1) : ~RatEq(rs[j].confidence, rs[i].confidence)

\* C29: the best-of-n (swarm) and elimination (tournament) reductions of
\* the same non-empty list return the same confidence and result text:
\* those of the first maximum-confidence item in input order, with status
\* success and that item's id recorded.
C29_BestOfNEqualsElimination ==
    (op = "aggregate_results" /\ ctype \in {"swarm", "tournament"}
        /\ results # <<>>) =>
        LET best == results[FirstOfMaximumConfidence(results)]
        IN  /\ verdict.confidence = best.confidence
            /\ verdict.result = best.result
            /\ verdict.status = "success"
            /\ ctype = "swarm" => verdict.chain_id = best.chain_id
            /\ ctype = "tournament" => verdict.winner = best.chain_id
            /\ aggregate_results(results, "swarm").confidence
                  = aggregate_results(results, "tournament").confidence
            /\ aggregate_results(results, "swarm").result
                  = aggregate_results(results, "tournament").result

\* two items tie at the maximum: the earlier one wins the tournament
C29_Witness ==
    /\ op = "aggregate_results"
    /\ ctype = "tournament"
    /\ Confidences(results) = << <<3, 10>>, <<9, 10>>, <<9, 10>> >>
    /\ verdict.winner = results[2].chain_id
    /\ verdict.result = results[2].result

(***************************************************************************)
(* A whole run: a plan is prepared, the host runs every work item and      *)
(* hands back one output per item, labelled with the item's description,   *)
(* and the outputs are aggregated under the plan.                          *)
(***************************************************************************)
\* tasks of a run: one per detected domain of the persona titles used
RunTasks == {{}, {"SECURITY"}, {"key"}}

\* raw texts of chain agents: none names an archetype id
ChainPayloads == { <<"confidence", ":", ".", "8">>, <<"ok">> }

\* raw texts of persona agents
PersonaPayloads == ChainPayloads \cup { <<"ARC-QA", " ", "confidence", ":", "1">> }

InitRun ==
    /\ op = "none"
    /\ CallIdle
    /\ PlanIdle
    /\ HostIdle
    /\ ParseIdle
    /\ AggregateIdle

\* USFRunner.prepare with a topology named by the caller
PrepareRun ==
    /\ op = "none"
    /\ \E task \in RunTasks, ct \in Range(ComputeTypes),
          pl \in PrecisionLevels, use_archetypes \in BOOLEAN :
            plan' = prepare(task, ct, pl, use_archetypes, FALSE)
    /\ op' = "prepare"
    /\ UNCHANGED <<xplan, items, started, completed, raw, parsed, reparsed,
                   results, ctype, verdict, task_outputs, args, ret>>

\* the output dict of the i-th work item of a list
OutputOf(commands, i, offset, payload) ==
    [task_id     |-> <<Str(i + offset)>>,
     description |-> commands[i].description,
     output      |-> payload]

\* the host returns the complete result set: one output per chain item and
\* per persona item
CollectOutputs ==
    /\ op = "prepare"
    /\ \E p \in ChainPayloads, q \in PersonaPayloads :
          task_outputs' =
              [i \in 1..Len(plan.chain_commands) |->
                  OutputOf(plan.chain_commands, i, 0, p)]
              \o [i \in 1..Len(plan.archetype_commands) |->
                  OutputOf(plan.archetype_commands, i,
                           Len(plan.chain_commands), q)]
    /\ op' = "collected"
    /\ UNCHANGED <<plan, xplan, items, started, completed, raw, parsed,
                   reparsed, results, ctype, verdict, args, ret>>

\* aggregate_from_json on the collected outputs and the prepared plan
AggregateCollected ==
    /\ op = "collected"
    /\ verdict' = aggregate_from_json(task_outputs, plan)
    /\ op' = "aggregate_from_json"
    /\ UNCHANGED <<plan, xplan, items, started, completed, raw, parsed,
                   reparsed, results, ctype, task_outputs, args, ret>>

NextRun == PrepareRun \/ CollectOutputs \/ AggregateCollected

SpecRun == InitRun /\ [][NextRun]_vars

\* C30: plan and aggregation agree on categories: the description of every
\* persona work item of a plan is classified by aggregate_from_json as a
\* persona result, and the description of every chain work item, for each
\* of the 13 topologies, as a chain result when the raw output has no
\* archetype id; so for a complete result set the verdict's chain_count and
\* archetype_count are the plan's numbers of chain and persona items.
C30_PlanAndVerdictAgreeOnCategories ==
    /\ op \in {"prepare", "collected"} =>
          /\ \A i \in 1..Len(plan.archetype_commands) :
                \A q \in PersonaPayloads :
                    IsArchetypeResult(plan.archetype_commands[i].description, q)
          /\ \A i \in 1..Len(plan.chain_commands) :
                \A p \in ChainPayloads :
                    ~IsArchetypeResult(plan.chain_commands[i].description, p)
    /\ (op = "aggregate_from_json" /\ ReturnedVerdict) =>
          /\ verdict.chain_count = Len(plan.chain_commands)
          /\ verdict.archetype_count = Len(plan.archetype_commands)
          /\ [i \in 1..verdict.chain_count |-> verdict.chain_results[i].id]
                = [i \in 1..Len(plan.chain_commands) |->
                      plan.chain_commands[i].description]

C30_Witness ==
    /\ op = "aggregate_from_json"
    /\ ReturnedVerdict
    /\ plan.compute_type = "supervisor_worker"
    /\ Len(plan.chain_commands) = 10
    /\ Len(plan.archetype_commands) = 5
    /\ verdict.chain_count = 10
    /\ verdict.archetype_count = 5

====
